---------------------------- MODULE Spec2Model ----------------------------
(***************************************************************************)
(* A model of the OCR workbench: the Streamlit script run (app.py main,    *)
(* which calls render_main_panes), the export worker                       *)
(* (exporter.start_export_job._run) and the OCR worker (_do_ocr / _redo).  *)
(*                                                                         *)
(* One script run of main() is one atomic UI action; each worker statement *)
(* that touches shared state is one worker action (the interpreter lock    *)
(* makes single attribute and dict writes atomic, nothing more).           *)
(*                                                                         *)
(* Python's None is the empty sequence << >>, a present value v is <<v>>.  *)
(* Dicts are functions whose DOMAIN is the set of keys.  Texts that are    *)
(* parsed are sequences of one-character strings.                          *)
(***************************************************************************)
EXTENDS Integers, Sequences, FiniteSets, TLC

----------------------------------------------------------------------------
(* Bounds of the model *)

\* pages of the uploaded PDF
MaxPages == 2
\* pages in one response of the OCR backend
MaxResp == 2
\* export jobs started in one behaviour
MaxExports == 2
\* OCR jobs started in one behaviour
MaxOcrJobs == 3

----------------------------------------------------------------------------
(* Optional values and dicts *)

None == << >>

Some(v) == << v >>

IsNone(x) == x = << >>

\* d.get(k)
DictGet(d, k) == IF k \in DOMAIN d THEN Some(d[k]) ELSE None

\* d[k] = v
DictPut(d, k, v) == [x \in DOMAIN d \cup {k} |-> IF x = k THEN v ELSE d[x]]

\* d.pop(k, None)
DictPop(d, k) == [x \in DOMAIN d \ {k} |-> d[x]]

EmptyDict == [x \in {} |-> None]

\* F applied to the value of v: statements execute one after the other, each
\* on the value the one before computed
Bind(v, F(_)) == CHOOSE r \in {F(x) : x \in {v}} : TRUE

Max(a, b) == IF a >= b THEN a ELSE b

Min(a, b) == IF a <= b THEN a ELSE b

----------------------------------------------------------------------------
(* utils/range_parse.py *)

\* total_pages = None
NoTotal == -1

\* the largest total_pages of a call of parse_page_range run on its own
MaxTotal == 5

\* how many session ids are made when the session functions run on their own
MaxSessions == 3

\* the longest text over three characters, and the most lines of a text of
\* whole lines, given to _fix_markdown_line_breaks run on its own
MaxText == 5

MaxLines == 3

\* how many export tasks wait for a thread when the pools run on their own
MaxPoolJobs == 3

Digits == <<"0", "1", "2", "3", "4", "5", "6", "7", "8", "9">>

IsDigit(c) == \E i \in 1..10 : Digits[i] = c

DigitVal(c) == (CHOOSE i \in 1..10 : Digits[i] = c) - 1

IsDigits(s) == Len(s) > 0 /\ \A i \in 1..Len(s) : IsDigit(s[i])

RECURSIVE ToInt(_)
ToInt(s) ==
    IF s = << >> THEN 0
    ELSE 10 * ToInt(SubSeq(s, 1, Len(s) - 1)) + DigitVal(s[Len(s)])

\* str.lower(), on the letters the texts of the model use
LowerChar(c) ==
    CASE c = "A" -> "a"
      [] c = "L" -> "l"
      [] OTHER -> c

Lower(s) == [i \in 1..Len(s) |-> LowerChar(s[i])]

RECURSIVE LStrip(_)
LStrip(s) == IF s # << >> /\ s[1] = " " THEN LStrip(Tail(s)) ELSE s

RECURSIVE RStrip(_)
RStrip(s) ==
    IF s # << >> /\ s[Len(s)] = " " THEN RStrip(SubSeq(s, 1, Len(s) - 1)) ELSE s

\* str.strip()
Strip(s) == LStrip(RStrip(s))

\* text.split(','): "" splits into one empty part
RECURSIVE SplitComma(_)
SplitComma(s) ==
    IF \A i \in 1..Len(s) : s[i] # ","
    THEN << s >>
    ELSE LET i == CHOOSE j \in 1..Len(s) :
                      s[j] = "," /\ \A h \in 1..(j - 1) : s[h] # ","
         IN  << SubSeq(s, 1, i - 1) >> \o SplitComma(SubSeq(s, i + 1, Len(s)))

\* range_re = ^(\d+)\s*-\s*(\d+)$ : the positions of the dash of a match
RangeDash(part) ==
    {i \in 1..Len(part) :
        /\ part[i] = "-"
        /\ IsDigits(RStrip(SubSeq(part, 1, i - 1)))
        /\ IsDigits(LStrip(SubSeq(part, i + 1, Len(part))))}

\* int(part) succeeds: an optional sign and digits (part is stripped already)
IntParses(part) ==
    \/ IsDigits(part)
    \/ Len(part) > 1 /\ part[1] \in {"+", "-"} /\ IsDigits(Tail(part))

IntValue(part) ==
    IF IsDigits(part) THEN ToInt(part)
    ELSE IF part[1] = "-" THEN 0 - ToInt(Tail(part))
    ELSE ToInt(Tail(part))

\* a faulty variant of the operator below: a range a-b with a > b is empty
PartPagesNoSwap(rawPart) ==
    Bind(Strip(rawPart), LAMBDA part :
        IF part = << >> THEN {}
        ELSE IF RangeDash(part) # {}
        THEN LET i == CHOOSE j \in RangeDash(part) : TRUE
                 a == ToInt(RStrip(SubSeq(part, 1, i - 1)))
                 b == ToInt(LStrip(SubSeq(part, i + 1, Len(part))))
             IN  a..b
        ELSE IF IntParses(part) /\ IntValue(part) > 0 THEN {IntValue(part)}
        ELSE {})

\* the pages one comma-separated part adds to the set
PartPages(rawPart) ==
    Bind(Strip(rawPart), LAMBDA part :
        IF part = << >> THEN {}
        ELSE IF RangeDash(part) # {}
        THEN LET i == CHOOSE j \in RangeDash(part) : TRUE
                 a == ToInt(RStrip(SubSeq(part, 1, i - 1)))
                 b == ToInt(LStrip(SubSeq(part, i + 1, Len(part))))
             IN  Min(a, b)..Max(a, b)
        ELSE IF IntParses(part) /\ IntValue(part) > 0 THEN {IntValue(part)}
        ELSE {})

\* sorted(S)
RECURSIVE SortedSeq(_)
SortedSeq(S) ==
    IF S = {} THEN << >>
    ELSE LET m == CHOOSE x \in S : \A y \in S : x <= y
         IN  << m >> \o SortedSeq(S \ {m})

\* not total_pages
NoPages(total_pages) == total_pages = NoTotal \/ total_pages = 0

\* a faulty variant of the function below: an empty selection is returned as
\* an empty list
ParsePageRangeEmptyList(text0, total_pages) ==
    Bind(Lower(Strip(text0)), LAMBDA text :
        IF text \in {<<"a", "l", "l">>, <<"*">>}
        THEN IF NoPages(total_pages)
             THEN [ok |-> FALSE, pages |-> << >>, raises |-> "ValueError",
                   error |-> "Total pages required for 'all'"]
             ELSE [ok |-> TRUE, pages |-> [i \in 1..total_pages |-> i], raises |-> "",
                   error |-> ""]
        ELSE Bind(SplitComma(text), LAMBDA parts :
             Bind(UNION {PartPages(parts[i]) : i \in 1..Len(parts)}, LAMBDA pages :
                 [ok |-> TRUE, raises |-> "", error |-> "",
                  pages |-> SortedSeq({p \in pages :
                      p > 0 /\ (NoPages(total_pages) \/ p <= total_pages)})])))

\* parse_page_range(text, total_pages): the list returned, or the class and
\* the message of the exception raised
ParsePageRange(text0, total_pages) ==
    Bind(Lower(Strip(text0)), LAMBDA text :
        IF text \in {<<"a", "l", "l">>, <<"*">>}
        THEN IF NoPages(total_pages)
             THEN [ok |-> FALSE, pages |-> << >>, raises |-> "ValueError",
                   error |-> "Total pages required for 'all'"]
             ELSE [ok |-> TRUE, pages |-> [i \in 1..total_pages |-> i], raises |-> "",
                   error |-> ""]
        ELSE Bind(SplitComma(text), LAMBDA parts :
             Bind(UNION {PartPages(parts[i]) : i \in 1..Len(parts)}, LAMBDA pages :
             Bind(SortedSeq({p \in pages :
                      p > 0 /\ (NoPages(total_pages) \/ p <= total_pages)}), LAMBDA result :
                 IF result = << >>
                 THEN [ok |-> FALSE, pages |-> << >>, raises |-> "ValueError",
                       error |-> "No valid pages selected"]
                 ELSE [ok |-> TRUE, pages |-> result, raises |-> "", error |-> ""]))))

----------------------------------------------------------------------------
(* State *)

VARIABLES
    file,        \* session.files of the one session: None or <<SessionFile>>
    memo,        \* st.session_state["_memo_cache"]["ocr"]: page -> markdown
    rawState,    \* st.session_state[raw_key]: page -> text of the editor widget
    ocr_jobs,    \* st.session_state["ocr_jobs"]: page -> job entry
    ocrQ,        \* tasks of ocr_exec, oldest first (the head is the one running)
    ocrStarted,  \* OCR jobs started so far
    jobs,        \* st.session_state["jobs"]: session id -> index into ejob
    ejob,        \* the ExportJob objects, in creation order
    ework,       \* the _run closure of each ExportJob (same index)
    exports,     \* session.exports, in insertion order
    plan,        \* which controls the user works with in this behaviour
    call,        \* the last call of a function that is run on its own
    memoFallback,      \* services/cache.py: _MEMO_FALLBACK["ocr"]
    stateOk,           \* st.session_state can be used (else its use raises)
    sessions,          \* st.session_state["sessions"]: id -> Session
    active_session_id, \* st.session_state["active_session_id"]
    heap,              \* the SessionFile objects and the dict objects they hold
    sessionsMade       \* how many session ids new_session_id has made

\* what the runs of single functions add to the state of the application
cacheVars == <<memoFallback, stateOk>>

sessionVars == <<sessions, active_session_id, heap, sessionsMade>>

unitVars == <<call, cacheVars, sessionVars>>

vars == <<file, memo, rawState, ocr_jobs, ocrQ, ocrStarted, jobs, ejob, ework,
          exports, plan, unitVars>>

ocrVars == <<file, memo, rawState, ocr_jobs, ocrQ, ocrStarted, plan, unitVars>>

\* no function was called on its own
NoCall == [fn |-> "none"]

\* the cache module and the session functions were not run on their own
NoUnits ==
    /\ memoFallback = << >>
    /\ stateOk = TRUE
    /\ sessions = << >>
    /\ active_session_id = << >>
    /\ heap = << >>
    /\ sessionsMade = 0

\* the one session made by ensure_app_state
SID == "s1"

\* Session.title as made by ensure_app_state
Title == <<"S", "e", "s", "s", "i", "o", "n", " ", "1">>

\* ThreadPoolExecutor(max_workers=2) of get_executor
ExportPoolSize == 2

\* ThreadPoolExecutor(max_workers=1) of ocr_exec
OcrPoolSize == 1

Terminal == {"done", "error", "cancelled"}

----------------------------------------------------------------------------
(* services/exporter.py: the artifacts *)

\* str(n)
RECURSIVE IntChars(_)
IntChars(n) ==
    IF n < 10 THEN << Digits[n + 1] >>
    ELSE IntChars(n \div 10) \o << Digits[(n % 10) + 1] >>

\* sep.join(parts), parts a sequence of token sequences
RECURSIVE Join(_, _)
Join(parts, sep) ==
    IF parts = << >> THEN << >>
    ELSE IF Len(parts) = 1 THEN parts[1]
    ELSE parts[1] \o << sep >> \o Join(Tail(parts), sep)

\* a faulty variant of the artifact below: the heading counts the pages
MdBytesByPosition(md_pages, pages, is_pdf) ==
    Join([i \in 1..Len(md_pages) |->
             IF is_pdf
             THEN << "# Page " >> \o IntChars(i) \o << "\n\n", md_pages[i], "\n" >>
             ELSE << md_pages[i] >>],
         "\n\n")

\* "\n\n".join(combined).encode("utf-8") of the md branch
MdBytes(md_pages, pages, is_pdf) ==
    Join([i \in 1..Len(md_pages) |->
             IF is_pdf
             THEN << "# Page " >> \o IntChars(pages[i]) \o << "\n\n", md_pages[i], "\n" >>
             ELSE << md_pages[i] >>],
         "\n\n")

\* _markdown_to_pdf_bytes: the PDF made of combined_md
PdfBytes(md_pages, pages, is_pdf) ==
    << "%PDF" >> \o
    Join([i \in 1..Min(Len(md_pages), Len(pages)) |->
             IF is_pdf
             THEN << "# Page " >> \o IntChars(pages[i]) \o << "\n\n", md_pages[i] >>
             ELSE << md_pages[i] >>],
         "\n\n---\n\n")

\* what the filename service can do: no key, an exception, or a reply
FilenameReplies ==
    { [kind |-> "nokey", text |-> "", hyphen |-> FALSE, lower |-> FALSE],
      [kind |-> "raises", text |-> "", hyphen |-> FALSE, lower |-> FALSE],
      [kind |-> "reply", text |-> "course-list", hyphen |-> TRUE, lower |-> TRUE],
      [kind |-> "reply", text |-> "Course List", hyphen |-> FALSE, lower |-> FALSE],
      [kind |-> "reply", text |-> "", hyphen |-> FALSE, lower |-> FALSE] }

\* _generate_filename_with_openai
GenerateFilename(reply) ==
    IF reply.kind = "reply" /\ reply.text # "" /\ reply.hyphen /\ reply.lower
    THEN Some(reply.text)
    ELSE None

\* session.title.replace(' ', '_')
ReplaceSpaces(s) == [i \in 1..Len(s) |-> IF s[i] = " " THEN "_" ELSE s[i]]

\* job.output_name for a smart name or the fallback
OutputName(smart_name, fmt) ==
    IF smart_name # None
    THEN << smart_name[1], ".", fmt >>
    ELSE ReplaceSpaces(Title) \o << "_", "%Y%m%d_%H%M%S", ".", fmt >>

\* a faulty variant of the choice below: the cache goes before the edit
CollectCacheFirst(f, p) ==
    IF p \in DOMAIN f.ocr_cache THEN f.ocr_cache[p].markdown
    ELSE IF p \in DOMAIN f.raw_edits THEN f.raw_edits[p]
    ELSE << >>

\* one page of _collect_pages_markdown: the edit (md is None tells a missing
\* edit from an empty one), else the cache, else the empty text
CollectPage(f, p) ==
    IF p \in DOMAIN f.raw_edits THEN f.raw_edits[p]
    ELSE IF p \in DOMAIN f.ocr_cache THEN f.ocr_cache[p].markdown
    ELSE << >>

\* job.progress = int(10 + 40 * i / max(1, len(page_numbers)))
CollectProgress(i, n) == 10 + ((40 * i) \div Max(1, n))

----------------------------------------------------------------------------
(* services/exporter.py: start_export_job._run, one action per statement   *)
(* that reads or writes the job, the files or the history                  *)

Executing(w) == w.pc \notin {"pending", "finished"}

\* a task that has returned: its locals are gone
Finished == [pc |-> "finished", range_text |-> << >>, pages |-> << >>,
             md_pages |-> << >>, exc |-> ""]

\* app.py, lines 19-26: the executor of task j.  Streamlit runs app.py anew on
\* every script run, so line 19 sets _executor to None again and the run
\* that starts an export makes its own ThreadPoolExecutor: the executor of
\* a task is the one of the run that submitted it
Pool(j) == j

\* its pool takes the oldest submitted task when one of its threads is free
ExportBegin(j) ==
    /\ j \in 1..Len(ework)
    /\ ework[j].pc = "pending"
    /\ \A i \in 1..(j - 1) : Pool(i) = Pool(j) => ework[i].pc # "pending"
    /\ Cardinality({i \in 1..Len(ework) : Pool(i) = Pool(j) /\ Executing(ework[i])})
           < ExportPoolSize
    /\ ejob' = [ejob EXCEPT ![j].status = "running"]
    /\ ework' = [ework EXCEPT ![j].pc = "parse"]
    /\ UNCHANGED <<ocrVars, jobs, exports>>

\* lines 229-234: total_pages and the pages of the range
ResolvePages(f, text) ==
    LET total_pages == IF f.num_pages = 0 THEN 1 ELSE f.num_pages
    IN  IF Lower(Strip(text)) # <<"a", "l", "l">>
        THEN ParsePageRange(text, total_pages)
        ELSE [ok |-> TRUE, pages |-> [i \in 1..total_pages |-> i], raises |-> "",
              error |-> ""]

\* lines 228-239: resolve the pages, raise on a bad range, first cancel check
ExportParse(j) ==
    /\ j \in 1..Len(ework)
    /\ ework[j].pc = "parse"
    /\ \E r \in {ResolvePages(file[1], ework[j].range_text)} :
           IF ~r.ok
           THEN /\ ework' = [ework EXCEPT ![j].pc = "exc", ![j].exc = r.error,
                                        ![j].range_text = << >>]
                /\ ejob' = ejob
           ELSE IF r.pages = << >>
           THEN /\ ework' = [ework EXCEPT ![j].pc = "exc", ![j].exc = "No pages to export",
                                        ![j].range_text = << >>]
                /\ ejob' = ejob
           ELSE IF ejob[j].cancel_flag
           THEN /\ ework' = [ework EXCEPT ![j] = Finished]
                /\ ejob' = [ejob EXCEPT ![j].status = "cancelled"]
           ELSE /\ ework' = [ework EXCEPT ![j].pc = "stage", ![j].pages = r.pages,
                                        ![j].range_text = << >>]
                /\ ejob' = ejob
    /\ UNCHANGED <<ocrVars, jobs, exports>>

\* lines 242 and 293: the stage of the format
ExportStage(j) ==
    /\ j \in 1..Len(ework)
    /\ ework[j].pc = "stage"
    /\ ejob' = [ejob EXCEPT ![j].stage =
                   IF ejob[j].format = "pdf" THEN "Converting to PDF"
                   ELSE "Preparing Markdown"]
    /\ ework' = [ework EXCEPT ![j].pc = "collect_stage"]
    /\ UNCHANGED <<ocrVars, jobs, exports>>

\* line 119
ExportCollectStage(j) ==
    /\ j \in 1..Len(ework)
    /\ ework[j].pc = "collect_stage"
    /\ ejob' = [ejob EXCEPT ![j].stage = "Collecting pages"]
    /\ ework' = [ework EXCEPT ![j].pc = "collect", ![j].md_pages = << >>]
    /\ UNCHANGED <<ocrVars, jobs, exports>>

\* a faulty variant of the loop below: it has no check between pages
ExportCollectNoCheck(j) ==
    /\ j \in 1..Len(ework)
    /\ ework[j].pc = "collect"
    /\ LET w == ework[j]
           i == Len(w.md_pages) + 1
           n == Len(w.pages)
       IN  /\ ejob' = [ejob EXCEPT ![j].progress = CollectProgress(i, n)]
           /\ ework' = [ework EXCEPT
                  ![j].md_pages = Append(w.md_pages, CollectPage(file[1], w.pages[i])),
                  ![j].pc = IF i < n THEN "collect"
                            ELSE IF ejob[j].format = "pdf" THEN "pdf_check"
                            ELSE "bytes"]
    /\ UNCHANGED <<ocrVars, jobs, exports>>

\* lines 121-129: one turn of the loop
ExportCollectPage(j) ==
    /\ j \in 1..Len(ework)
    /\ ework[j].pc = "collect"
    /\ LET w == ework[j]
           i == Len(w.md_pages) + 1
           n == Len(w.pages)
           md == CollectPage(file[1], w.pages[i])
           leave == ejob[j].cancel_flag \/ i = n
       IN  /\ ejob' = [ejob EXCEPT ![j].progress = CollectProgress(i, n)]
           /\ ework' = [ework EXCEPT
                  ![j].md_pages = Append(w.md_pages, md),
                  ![j].pc = IF ~leave THEN "collect"
                            ELSE IF ejob[j].format = "pdf" THEN "pdf_check"
                            ELSE "bytes"]
    /\ UNCHANGED <<ocrVars, jobs, exports>>

\* lines 244-246
ExportPdfCheck(j) ==
    /\ j \in 1..Len(ework)
    /\ ework[j].pc = "pdf_check"
    /\ IF ejob[j].cancel_flag
       THEN /\ ejob' = [ejob EXCEPT ![j].status = "cancelled"]
            /\ ework' = [ework EXCEPT ![j] = Finished]
       ELSE /\ ejob' = ejob
            /\ ework' = [ework EXCEPT ![j].pc = "bytes"]
    /\ UNCHANGED <<ocrVars, jobs, exports>>

\* a faulty variant of the step below: a failed rendering leaves what it
\* had written in the job
ExportRenderPartial(j, rendered) ==
    /\ j \in 1..Len(ework)
    /\ ework[j].pc = "bytes"
    /\ rendered \in (IF ejob[j].format = "pdf" THEN BOOLEAN ELSE {TRUE})
    /\ LET w == ework[j]
           f == file[1]
       IN  IF ~rendered
           THEN /\ ework' = [ework EXCEPT ![j].pc = "exc", ![j].exc = "pdf rendering failed"]
                /\ ejob' = [ejob EXCEPT ![j].output_bytes = Some(<< "%PDF" >>)]
           ELSE /\ ework' = [ework EXCEPT ![j].pc = "name_stage"]
                /\ ejob' = [ejob EXCEPT ![j].output_bytes =
                       Some(IF ejob[j].format = "pdf"
                            THEN PdfBytes(w.md_pages, w.pages, f.is_pdf)
                            ELSE MdBytes(w.md_pages, w.pages, f.is_pdf))]
    /\ UNCHANGED <<ocrVars, jobs, exports>>

\* a faulty variant of the step below: the artifact is built and never stored
ExportSkipBytes(j, rendered) ==
    /\ j \in 1..Len(ework)
    /\ ework[j].pc = "bytes"
    /\ rendered
    /\ ework' = [ework EXCEPT ![j].pc = "name_stage"]
    /\ UNCHANGED <<ocrVars, jobs, ejob, exports>>

\* lines 249-250 (the PDF renderer returns or raises) and 295-302
ExportWriteBytes(j, rendered) ==
    /\ j \in 1..Len(ework)
    /\ ework[j].pc = "bytes"
    /\ rendered \in (IF ejob[j].format = "pdf" THEN BOOLEAN ELSE {TRUE})
    /\ LET w == ework[j]
           f == file[1]
       IN  IF ~rendered
           THEN /\ ework' = [ework EXCEPT ![j].pc = "exc", ![j].exc = "pdf rendering failed"]
                /\ ejob' = ejob
           ELSE /\ ework' = [ework EXCEPT ![j].pc = "name_stage"]
                /\ ejob' = [ejob EXCEPT ![j].output_bytes =
                       Some(IF ejob[j].format = "pdf"
                            THEN PdfBytes(w.md_pages, w.pages, f.is_pdf)
                            ELSE MdBytes(w.md_pages, w.pages, f.is_pdf))]
    /\ UNCHANGED <<ocrVars, jobs, exports>>

\* lines 253 and 305
ExportNameStage(j) ==
    /\ j \in 1..Len(ework)
    /\ ework[j].pc = "name_stage"
    /\ ejob' = [ejob EXCEPT ![j].stage = "Generating filename"]
    /\ ework' = [ework EXCEPT ![j].pc = "name"]
    /\ UNCHANGED <<ocrVars, jobs, exports>>

\* a faulty variant of the step below: an exception of the filename service
\* is not swallowed
ExportNameRaises(j, reply) ==
    /\ j \in 1..Len(ework)
    /\ ework[j].pc = "name"
    /\ IF reply.kind = "raises"
       THEN /\ ework' = [ework EXCEPT ![j].pc = "exc", ![j].exc = "filename service failed"]
            /\ ejob' = ejob
       ELSE /\ ejob' = [ejob EXCEPT ![j].output_name =
                          OutputName(GenerateFilename(reply), ejob[j].format)]
            /\ ework' = [ework EXCEPT ![j].pc = "final"]
    /\ UNCHANGED <<ocrVars, jobs, exports>>

\* lines 254-264 and 306-316
ExportWriteName(j, reply) ==
    /\ j \in 1..Len(ework)
    /\ ework[j].pc = "name"
    /\ ejob' = [ejob EXCEPT ![j].output_name =
                   OutputName(GenerateFilename(reply), ejob[j].format)]
    /\ ework' = [ework EXCEPT ![j].pc = "final"]
    /\ UNCHANGED <<ocrVars, jobs, exports>>

\* a faulty variant of the step below: a cancelled job is marked and still
\* goes on to the history
ExportFinalCheckLate(j) ==
    /\ j \in 1..Len(ework)
    /\ ework[j].pc = "final"
    /\ IF ~ejob[j].cancel_flag
       THEN /\ ejob' = ejob
            /\ ework' = [ework EXCEPT ![j].pc = "w_progress"]
       ELSE /\ ejob' = [ejob EXCEPT ![j].status = "cancelled"]
            /\ ework' = [ework EXCEPT ![j].pc = "append"]
    /\ UNCHANGED <<ocrVars, jobs, exports>>

\* lines 318 and 335-336: the last read of the cancel flag
ExportFinalCheck(j) ==
    /\ j \in 1..Len(ework)
    /\ ework[j].pc = "final"
    /\ IF ~ejob[j].cancel_flag
       THEN /\ ejob' = ejob
            /\ ework' = [ework EXCEPT ![j].pc = "w_progress"]
       ELSE /\ ejob' = [ejob EXCEPT ![j].status = "cancelled"]
            /\ ework' = [ework EXCEPT ![j] = Finished]
    /\ UNCHANGED <<ocrVars, jobs, exports>>

\* line 319
ExportWriteProgress(j) ==
    /\ j \in 1..Len(ework)
    /\ ework[j].pc = "w_progress"
    /\ ejob' = [ejob EXCEPT ![j].progress = 100]
    /\ ework' = [ework EXCEPT ![j].pc = "w_stage"]
    /\ UNCHANGED <<ocrVars, jobs, exports>>

\* a faulty variant of the step below: the stage is left as it was
ExportSkipReady(j) ==
    /\ j \in 1..Len(ework)
    /\ ework[j].pc = "w_stage"
    /\ ework' = [ework EXCEPT ![j].pc = "w_status"]
    /\ UNCHANGED <<ocrVars, jobs, ejob, exports>>

\* line 320
ExportWriteReady(j) ==
    /\ j \in 1..Len(ework)
    /\ ework[j].pc = "w_stage"
    /\ ejob' = [ejob EXCEPT ![j].stage = "Ready"]
    /\ ework' = [ework EXCEPT ![j].pc = "w_status"]
    /\ UNCHANGED <<ocrVars, jobs, exports>>

\* line 321
ExportWriteDone(j) ==
    /\ j \in 1..Len(ework)
    /\ ework[j].pc = "w_status"
    /\ ejob' = [ejob EXCEPT ![j].status = "done"]
    /\ ework' = [ework EXCEPT ![j].pc = "append"]
    /\ UNCHANGED <<ocrVars, jobs, exports>>

\* a faulty variant of the step below: building the item raises inside the
\* try block, after the status was set to done
ExportAppendRaises(j) ==
    /\ j \in 1..Len(ework)
    /\ ework[j].pc = "append"
    /\ ework' = [ework EXCEPT ![j].pc = "exc", ![j].exc = "history write failed"]
    /\ UNCHANGED <<ocrVars, jobs, ejob, exports>>

\* a faulty variant of the step below: the item is stored twice
ExportAppendTwice(j) ==
    /\ j \in 1..Len(ework)
    /\ ework[j].pc = "append"
    /\ LET item == [id |-> j, name |-> ejob[j].output_name,
                    format |-> ejob[j].format, content |-> ejob[j].output_bytes]
       IN  exports' = exports \o << item, item >>
    /\ ework' = [ework EXCEPT ![j] = Finished]
    /\ UNCHANGED <<ocrVars, jobs, ejob>>

\* lines 324-334: the id is a fresh uuid, here the job's index
ExportAppend(j) ==
    /\ j \in 1..Len(ework)
    /\ ework[j].pc = "append"
    /\ exports' = Append(exports,
           [id |-> j, name |-> ejob[j].output_name, format |-> ejob[j].format,
            content |-> ejob[j].output_bytes])
    /\ ework' = [ework EXCEPT ![j] = Finished]
    /\ UNCHANGED <<ocrVars, jobs, ejob>>

\* lines 266 and 338
ExportError(j) ==
    /\ j \in 1..Len(ework)
    /\ ework[j].pc = "exc"
    /\ ejob' = [ejob EXCEPT ![j].error = Some(ework[j].exc)]
    /\ ework' = [ework EXCEPT ![j].pc = "exc_status"]
    /\ UNCHANGED <<ocrVars, jobs, exports>>

\* a faulty variant of the step below: the handler ends without the status
ExportErrorNoStatus(j) ==
    /\ j \in 1..Len(ework)
    /\ ework[j].pc = "exc_status"
    /\ ework' = [ework EXCEPT ![j] = Finished]
    /\ UNCHANGED <<ocrVars, jobs, ejob, exports>>

\* lines 267 and 339
ExportErrorStatus(j) ==
    /\ j \in 1..Len(ework)
    /\ ework[j].pc = "exc_status"
    /\ ejob' = [ejob EXCEPT ![j].status = "error"]
    /\ ework' = [ework EXCEPT ![j] = Finished]
    /\ UNCHANGED <<ocrVars, jobs, exports>>

----------------------------------------------------------------------------
(* ui/main_panes.py: _do_ocr and _redo (the same body), run by ocr_exec    *)

\* the markdown the OCR backend gives for page i of a document
PageText(i) == << "P" >> \o IntChars(i)

\* ocr_pdf_pages_markdown: a response of n pages
PdfResponse(n) == [i \in 1..n |-> PageText(i)]

\* a faulty variant of the selection below: the first page is always taken
OcrSelectFirst(pdf, expect_page, n) ==
    IF pdf
    THEN [md |-> IF n > 0 THEN PdfResponse(n)[1] ELSE << >>,
          pages_len |-> IF n = 0 THEN 1 ELSE n]
    ELSE [md |-> IF n = 0 THEN << >> ELSE PageText(1), pages_len |-> 1]

\* lines 256-263: [md, pages_len] from a response of n pages
OcrSelect(pdf, expect_page, n) ==
    IF pdf
    THEN LET pages_md == PdfResponse(n)
             pages_len == IF Len(pages_md) = 0 THEN 1 ELSE Len(pages_md)
             idx == Max(1, Min(expect_page, pages_len)) - 1
         IN  [md |-> IF pages_md # << >> THEN pages_md[idx + 1] ELSE << >>,
              pages_len |-> pages_len]
    ELSE [md |-> IF n = 0 THEN << >> ELSE PageText(1), pages_len |-> 1]

OcrDequeue == ocrQ' = Tail(ocrQ)

OcrHeadAt(pc) == ocrQ # << >> /\ ocrQ[1].pc = pc

OcrSetHead(w) == ocrQ' = << w >> \o Tail(ocrQ)

\* lines 256-263: the backend call returns n pages or raises
OcrCall(n, ok) ==
    /\ OcrHeadAt("pending")
    /\ LET w == ocrQ[1]
           r == OcrSelect(w.pdf, w.expect_page, n)
       IN  IF ok
           THEN OcrSetHead([w EXCEPT !.pc = "check", !.md = r.md, !.pages_len = r.pages_len])
           ELSE OcrSetHead([w EXCEPT !.pc = "exc", !.exc = "ocr backend failed"])
    /\ UNCHANGED <<file, memo, rawState, ocr_jobs, ocrStarted, jobs, ejob, ework, exports, plan, unitVars>>

\* a faulty variant of the step below: the checkpoint does not look at the flag
OcrCheckIgnoresCancel ==
    /\ OcrHeadAt("check")
    /\ ocr_jobs' = ocr_jobs
    /\ OcrSetHead([ocrQ[1] EXCEPT !.pc = "w_result"])
    /\ UNCHANGED <<file, memo, rawState, ocrStarted, jobs, ejob, ework, exports, plan, unitVars>>

\* lines 264-266: the checkpoint after the backend call
OcrCheck ==
    /\ OcrHeadAt("check")
    /\ LET w == ocrQ[1]
           k == w.key
       IN  IF k \in DOMAIN ocr_jobs /\ ocr_jobs[k].cancel
           THEN /\ ocr_jobs' = [ocr_jobs EXCEPT ![k].status = "cancelled"]
                /\ OcrDequeue
           ELSE /\ ocr_jobs' = ocr_jobs
                /\ OcrSetHead([w EXCEPT !.pc = "w_result"])
    /\ UNCHANGED <<file, memo, rawState, ocrStarted, jobs, ejob, ework, exports, plan, unitVars>>

\* a faulty variant of the step below: the worker puts its text into the
\* document instead of the job entry
OcrWriteResultIntoDoc ==
    /\ OcrHeadAt("w_result")
    /\ LET w == ocrQ[1]
           k == w.key
       IN  /\ file' = IF file = None THEN file
                      ELSE Some([file[1] EXCEPT !.raw_edits = DictPut(@, k, w.md)])
           /\ OcrSetHead([w EXCEPT !.pc = "w_pages"])
    /\ UNCHANGED <<memo, rawState, ocr_jobs, ocrStarted, jobs, ejob, ework, exports, plan, unitVars>>

\* line 267 (a missing entry raises KeyError)
OcrWriteResult ==
    /\ OcrHeadAt("w_result")
    /\ LET w == ocrQ[1]
           k == w.key
       IN  IF k \in DOMAIN ocr_jobs
           THEN /\ ocr_jobs' = [ocr_jobs EXCEPT ![k].result = Some(w.md)]
                /\ OcrSetHead([w EXCEPT !.pc = "w_pages"])
           ELSE /\ ocr_jobs' = ocr_jobs
                /\ OcrSetHead([w EXCEPT !.pc = "exc", !.exc = "KeyError"])
    /\ UNCHANGED <<file, memo, rawState, ocrStarted, jobs, ejob, ework, exports, plan, unitVars>>

\* line 268
OcrWritePages ==
    /\ OcrHeadAt("w_pages")
    /\ LET w == ocrQ[1]
           k == w.key
       IN  IF k \in DOMAIN ocr_jobs
           THEN /\ ocr_jobs' = [ocr_jobs EXCEPT ![k].pages = Some(w.pages_len)]
                /\ OcrSetHead([w EXCEPT !.pc = "w_status"])
           ELSE /\ ocr_jobs' = ocr_jobs
                /\ OcrSetHead([w EXCEPT !.pc = "exc", !.exc = "KeyError"])
    /\ UNCHANGED <<file, memo, rawState, ocrStarted, jobs, ejob, ework, exports, plan, unitVars>>

\* line 269
OcrWriteDone ==
    /\ OcrHeadAt("w_status")
    /\ LET w == ocrQ[1]
           k == w.key
       IN  IF k \in DOMAIN ocr_jobs
           THEN /\ ocr_jobs' = [ocr_jobs EXCEPT ![k].status = "done"]
                /\ OcrDequeue
           ELSE /\ ocr_jobs' = ocr_jobs
                /\ OcrSetHead([w EXCEPT !.pc = "exc", !.exc = "KeyError"])
    /\ UNCHANGED <<file, memo, rawState, ocrStarted, jobs, ejob, ework, exports, plan, unitVars>>

\* a faulty variant of the handler below: the exception ends the task and
\* nothing is recorded
OcrErrorUncaught ==
    /\ OcrHeadAt("exc")
    /\ OcrDequeue
    /\ UNCHANGED <<file, memo, rawState, ocr_jobs, ocrStarted, jobs, ejob, ework, exports, plan, unitVars>>

\* lines 270-271: the handler replaces the entry (it has no result, no pages)
OcrError ==
    /\ OcrHeadAt("exc")
    /\ LET w == ocrQ[1]
       IN  ocr_jobs' = DictPut(ocr_jobs, w.key,
               [status |-> "error", cancel |-> FALSE, error |-> Some(w.exc),
                result |-> None, pages |-> None, gen |-> w.gen])
    /\ OcrDequeue
    /\ UNCHANGED <<file, memo, rawState, ocrStarted, jobs, ejob, ework, exports, plan, unitVars>>

----------------------------------------------------------------------------
(* app.py main, lines 56-92: the export controls and the status poll       *)

\* start_export_job: raises ValueError without an active file
StartExportJob(t, fmt, text) ==
    IF file = None THEN t
    ELSE IF Len(t.ejob) >= MaxExports THEN [t EXCEPT !.over = TRUE]
    ELSE [t EXCEPT
            !.ejob = Append(t.ejob,
                [session_id |-> SID, format |-> fmt, status |-> "queued",
                 progress |-> 0, stage |-> "queued", output_name |-> << >>,
                 output_bytes |-> None, error |-> None, cancel_flag |-> FALSE]),
            !.jobs = DictPut(t.jobs, SID, Len(t.ejob) + 1),
            !.ework = Append(t.ework,
                [pc |-> "pending", range_text |-> text, pages |-> << >>,
                 md_pages |-> << >>, exc |-> ""])]

\* a faulty variant of the request below: the request also ends the job
CancelAndMark(t) ==
    IF SID \in DOMAIN t.jobs
    THEN [t EXCEPT !.ejob[t.jobs[SID]].cancel_flag = TRUE,
                   !.ejob[t.jobs[SID]].status = "cancelled"]
    ELSE t

\* cancel_export_job
CancelExportJob(t) ==
    IF SID \in DOMAIN t.jobs
    THEN [t EXCEPT !.ejob[t.jobs[SID]].cancel_flag = TRUE]
    ELSE t

\* lines 56-67
TopBar(click) ==
    LET t0 == [jobs |-> jobs, ejob |-> ejob, ework |-> ework, over |-> FALSE]
    IN  IF click.kind = "export" THEN StartExportJob(t0, click.fmt, click.text)
        ELSE IF click.kind = "cancel" THEN CancelExportJob(t0)
        ELSE t0

\* lines 71-78: a queued or running job makes the run sleep and rerun
PollStops(t) ==
    SID \in DOMAIN t.jobs /\ t.ejob[t.jobs[SID]].status \in {"running", "queued"}

----------------------------------------------------------------------------
(* ui/main_panes.py: render_main_panes.  A pass carries the record u:      *)
(* f the active file, memo, raw, jobs (ocr_jobs), q (ocr_exec), started,   *)
(* stop (st.rerun() ended the run), over (a bound of the model was hit),   *)
(* md_text (the local of that name)                                        *)

\* _load_session_file, lines 39-62; PyPDF2 reports `reported` pages
LoadSessionFile(is_pdf, total, reported) ==
    [is_pdf |-> is_pdf, total |-> total,
     num_pages |-> IF is_pdf THEN reported ELSE 1,
     current_page |-> 1, raw_edits |-> EmptyDict, ocr_cache |-> EmptyDict]

\* lines 86-105 and render_pdf lines 33-38 (fitz gives the true count)
FixPages(f) ==
    LET n1 == IF f.num_pages <= 1 THEN f.total ELSE f.num_pages
        c1 == Max(1, Min(f.current_page, Max(n1, 1)))
        c2 == IF n1 # f.total /\ c1 > f.total THEN f.total ELSE c1
    IN  [f EXCEPT !.num_pages = f.total, !.current_page = c2]

\* lines 112-131: previous, page input, next
Navigate(f, click) ==
    LET c1 == IF click.kind = "prev" /\ f.current_page > 1
              THEN Max(1, f.current_page - 1) ELSE f.current_page
        c2 == IF click.kind = "jump" /\ click.page \in 1..Max(1, f.num_pages)
              THEN click.page ELSE c1
        c3 == IF click.kind = "next" /\ c2 < f.num_pages THEN c2 + 1 ELSE c2
    IN  [f EXCEPT !.current_page = c3]

\* lines 228-229: the page of the key
CurKey(f) == IF f.is_pdf THEN f.current_page ELSE 1

\* lines 252-273 and 312-333: the new entry and its task
StartOcr(u, k) ==
    IF u.started >= MaxOcrJobs THEN [u EXCEPT !.over = TRUE, !.stop = TRUE]
    ELSE [u EXCEPT
            !.jobs = DictPut(u.jobs, k,
                [status |-> "running", cancel |-> FALSE, error |-> None,
                 result |-> None, pages |-> None, gen |-> u.started + 1]),
            !.q = Append(u.q,
                [key |-> k, pdf |-> u.f.is_pdf, expect_page |-> k, pc |-> "pending",
                 md |-> << >>, pages_len |-> 0, exc |-> "", gen |-> u.started + 1]),
            !.started = u.started + 1]

\* lines 284-292: the UI takes the result of a done entry
ConsumeDone(u, k) ==
    LET job == u.jobs[k]
        md == IF job.result = None THEN << >> ELSE job.result[1]
        np == IF u.f.num_pages = 0 THEN 1 ELSE u.f.num_pages
        pages_len == IF job.pages = None \/ job.pages = Some(0) THEN np ELSE job.pages[1]
    IN  [u EXCEPT
            !.memo = DictPut(u.memo, k, md),
            !.f.ocr_cache = DictPut(u.f.ocr_cache, k, [markdown |-> md, source |-> "api"]),
            !.f.raw_edits = DictPut(u.f.raw_edits, k, md),
            !.raw = DictPut(u.raw, k, md),
            !.f.num_pages = IF u.f.is_pdf THEN Max(np, pages_len) ELSE u.f.num_pages,
            !.jobs = DictPop(u.jobs, k)]

\* lines 276-282: Cancel OCR is offered while the entry is running
CancelOcr(u, k, click) ==
    [u EXCEPT !.jobs[k].cancel = IF click.kind = "cancel_ocr" THEN TRUE ELSE @,
              !.stop = TRUE]

\* lines 237-295 and 413-479
OcrBlock(u, click) ==
    LET k == CurKey(u.f)
        md0 == DictGet(u.f.raw_edits, k)
        cached == DictGet(u.memo, k)
    IN  IF md0 # None THEN [u EXCEPT !.md_text = md0]
        ELSE IF cached # None
        THEN [u EXCEPT
                !.md_text = cached,
                !.f.ocr_cache = DictPut(u.f.ocr_cache, k,
                                    [markdown |-> cached[1], source |-> "cache"]),
                !.f.raw_edits = DictPut(u.f.raw_edits, k, cached[1]),
                !.raw = DictPut(u.raw, k, cached[1])]
        ELSE LET u1 == IF k \notin DOMAIN u.jobs THEN StartOcr(u, k) ELSE u
             IN  IF u1.over THEN u1
                 ELSE IF u1.jobs[k].status = "running" THEN CancelOcr(u1, k, click)
                 ELSE IF u1.jobs[k].status = "done"
                      THEN [ConsumeDone(u1, k) EXCEPT !.md_text = None]
                 ELSE IF u1.jobs[k].status = "error"
                      THEN [u1 EXCEPT !.md_text = Some(<< >>)]
                 ELSE [u1 EXCEPT !.md_text = None]

\* a faulty variant of the guard below: the button is never disabled
ReOcrAlways(u, k) == TRUE

\* lines 307-308 and 484-485: the button is disabled while the entry is running
ReOcrEnabled(u, k) == ~(k \in DOMAIN u.jobs /\ u.jobs[k].status = "running")

\* lines 306-333 and 484-510
ReOcrButton(u, clicked) ==
    LET k == CurKey(u.f) IN
    IF clicked /\ ReOcrEnabled(u, k)
    THEN StartOcr([u EXCEPT !.memo = DictPop(u.memo, k), !.jobs = DictPop(u.jobs, k)], k)
    ELSE u

\* lines 529-537: the text area and the write of a changed text
Editor(u) ==
    LET k == CurKey(u.f)
        new_md == IF k \in DOMAIN u.raw THEN u.raw[k]
                  ELSE IF u.md_text = None THEN << >> ELSE u.md_text[1]
    IN  [u EXCEPT
            !.raw = DictPut(u.raw, k, new_md),
            !.f.raw_edits = IF Some(new_md) # u.md_text
                            THEN DictPut(u.f.raw_edits, k, new_md) ELSE @]

\* render_main_panes with a file loaded; a typed text reaches the widget
\* state before the run
PanesWithFile(u0, click) ==
    Bind(IF click.kind = "edit"
         THEN [u0 EXCEPT !.raw = DictPut(u0.raw, CurKey(u0.f), click.text)]
         ELSE u0, LAMBDA uE :
    Bind(IF uE.f.is_pdf
         THEN [uE EXCEPT !.f = Navigate(FixPages(uE.f), click)]
         ELSE uE, LAMBDA u1 :
    Bind(OcrBlock(u1, click), LAMBDA u2 :
    Bind(IF u2.stop THEN u2 ELSE ReOcrButton(u2, click.kind = "reocr2"), LAMBDA u3 :
    Bind(IF u3.stop THEN u3 ELSE OcrBlock(u3, click), LAMBDA u4 :
    Bind(IF u4.stop THEN u4 ELSE ReOcrButton(u4, click.kind = "reocr3"), LAMBDA u5 :
         IF u5.stop THEN u5 ELSE Editor(u5)))))))

\* the panes of one run, after the top bar left the export registry as t
Panes(t, click) ==
    LET u0 == [f |-> IF file = None THEN None ELSE file[1],
               memo |-> memo, raw |-> rawState, jobs |-> ocr_jobs, q |-> ocrQ,
               started |-> ocrStarted, stop |-> FALSE, over |-> FALSE,
               md_text |-> None]
    IN  IF PollStops(t) THEN u0
        ELSE IF file = None
        THEN IF click.kind = "upload"
             THEN [u0 EXCEPT !.f = LoadSessionFile(click.is_pdf, click.total,
                                                   click.reported)]
             ELSE u0
        ELSE PanesWithFile(u0, click)

\* one script run: app.py main
Main(click) ==
    \E t \in {TopBar(click)} :
    \E u \in {Panes(t, click)} :
        /\ ~t.over
        /\ ~u.over
        /\ jobs' = t.jobs
        /\ ejob' = t.ejob
        /\ ework' = t.ework
        /\ file' = IF u.f = None THEN None ELSE Some(u.f)
        /\ memo' = u.memo
        /\ rawState' = u.raw
        /\ ocr_jobs' = u.jobs
        /\ ocrQ' = u.q
        /\ ocrStarted' = u.started
        /\ UNCHANGED <<exports, plan, unitVars>>

----------------------------------------------------------------------------
(* What the user can do in one run *)

\* the range texts typed into the export box
RangeTexts ==
    { <<"a", "l", "l">>,
      <<"2", "-", "1">>,
      <<"9">> }

EditTexts == { << >>, <<"E">> }

Uploads ==
    {[kind |-> "upload", is_pdf |-> FALSE, total |-> 1, reported |-> 1]}
    \cup {[kind |-> "upload", is_pdf |-> TRUE, total |-> MaxPages, reported |-> m] :
              m \in {1, MaxPages}}

ExportClicks ==
    {[kind |-> "export", fmt |-> fmt, text |-> text] :
         fmt \in {"pdf", "md"}, text \in RangeTexts}
    \cup {[kind |-> "cancel"]}

OcrClicks ==
    {[kind |-> kd] : kd \in {"cancel_ocr", "reocr2", "reocr3", "prev", "next"}}
    \cup {[kind |-> "jump", page |-> p] : p \in 1..MaxPages}
    \cup {[kind |-> "edit", text |-> e] : e \in EditTexts}

Plans == {"export", "ocr"}

\* the page's OCR task has returned and the page shows what it gave
PageSettled ==
    /\ ocrStarted > 0
    /\ ocrQ = << >>
    /\ \A k \in DOMAIN ocr_jobs : ocr_jobs[k].status # "done"

\* the user uploads a file (the uploader keeps it on later runs); the user of
\* plan "export" then waits for the page to settle, works the export controls
\* and leaves the page alone; the user of plan "ocr" works the page and does
\* not export; the user of plan "brief" does as "export", and exports once
PlanClicks(pl) ==
    {[kind |-> "none"]}
    \cup (IF file = None THEN Uploads
          ELSE IF pl = "ocr" THEN OcrClicks
          ELSE IF ~PageSettled THEN {}
          ELSE IF pl = "export" \/ ejob = << >> THEN ExportClicks
          ELSE {[kind |-> "cancel"]})

----------------------------------------------------------------------------
(* The system *)

\* after ensure_app_state: one session, no file, no job
Init ==
    /\ file = None
    /\ memo = EmptyDict
    /\ rawState = EmptyDict
    /\ ocr_jobs = EmptyDict
    /\ ocrQ = << >>
    /\ ocrStarted = 0
    /\ jobs = EmptyDict
    /\ ejob = << >>
    /\ ework = << >>
    /\ exports = << >>
    /\ plan \in Plans
    /\ call = NoCall
    /\ NoUnits

Next ==
    \/ \E click \in PlanClicks(plan) : Main(click)
    \/ \E j \in 1..MaxExports : ExportBegin(j)
    \/ \E j \in 1..MaxExports : ExportParse(j)
    \/ \E j \in 1..MaxExports : ExportStage(j)
    \/ \E j \in 1..MaxExports : ExportCollectStage(j)
    \/ \E j \in 1..MaxExports : ExportCollectPage(j)
    \/ \E j \in 1..MaxExports : ExportPdfCheck(j)
    \/ \E j \in 1..MaxExports, rendered \in BOOLEAN : ExportWriteBytes(j, rendered)
    \/ \E j \in 1..MaxExports : ExportNameStage(j)
    \/ \E j \in 1..MaxExports, reply \in FilenameReplies : ExportWriteName(j, reply)
    \/ \E j \in 1..MaxExports : ExportFinalCheck(j)
    \/ \E j \in 1..MaxExports : ExportWriteProgress(j)
    \/ \E j \in 1..MaxExports : ExportWriteReady(j)
    \/ \E j \in 1..MaxExports : ExportWriteDone(j)
    \/ \E j \in 1..MaxExports : ExportAppend(j)
    \/ \E j \in 1..MaxExports : ExportError(j)
    \/ \E j \in 1..MaxExports : ExportErrorStatus(j)
    \/ \E n \in 0..MaxResp, ok \in BOOLEAN : OcrCall(n, ok)
    \/ OcrCheck
    \/ OcrWriteResult
    \/ OcrWritePages
    \/ OcrWriteDone
    \/ OcrError

Spec == Init /\ [][Next]_vars

\* the passes and the threads keep being scheduled: a script run that can
\* happen does happen, and a pool thread with a task goes on with it
ExportWorkerNext ==
    \E j \in 1..MaxExports :
        \/ ExportBegin(j) \/ ExportParse(j) \/ ExportStage(j)
        \/ ExportCollectStage(j) \/ ExportCollectPage(j) \/ ExportPdfCheck(j)
        \/ (\E rendered \in BOOLEAN : ExportWriteBytes(j, rendered))
        \/ ExportNameStage(j)
        \/ (\E reply \in FilenameReplies : ExportWriteName(j, reply))
        \/ ExportFinalCheck(j) \/ ExportWriteProgress(j) \/ ExportWriteReady(j)
        \/ ExportWriteDone(j) \/ ExportAppend(j) \/ ExportError(j)
        \/ ExportErrorStatus(j)

OcrWorkerNext ==
    \/ (\E n \in 0..MaxResp, ok \in BOOLEAN : OcrCall(n, ok))
    \/ OcrCheck \/ OcrWriteResult \/ OcrWritePages \/ OcrWriteDone \/ OcrError

\* the behaviours of plan "brief"
BriefInit ==
    /\ file = None
    /\ memo = EmptyDict
    /\ rawState = EmptyDict
    /\ ocr_jobs = EmptyDict
    /\ ocrQ = << >>
    /\ ocrStarted = 0
    /\ jobs = EmptyDict
    /\ ejob = << >>
    /\ ework = << >>
    /\ exports = << >>
    /\ plan = "brief"
    /\ call = NoCall
    /\ NoUnits

FairSpec ==
    /\ BriefInit
    /\ [][Next]_vars
    /\ WF_vars(\E click \in PlanClicks(plan) : Main(click))
    /\ WF_vars(ExportWorkerNext)
    /\ WF_vars(OcrWorkerNext)

----------------------------------------------------------------------------
(* The export worker on any document: _run reads the SessionFile whatever  *)
(* its raw_edits and ocr_cache hold, for any range text, with the cancel   *)
(* flag set or not before the worker starts                                *)

\* the partial dictionaries over the keys K with values in V
Dicts(K, V) == UNION {[D -> V] : D \in SUBSET K}

\* SessionFile: n pages, any edits, any cached OCR results
FilesOf(is_pdf, n) ==
    {[is_pdf |-> is_pdf, total |-> n, num_pages |-> n, current_page |-> 1,
      raw_edits |-> e, ocr_cache |-> c] :
         e \in Dicts(1..n, EditTexts),
         c \in {[p \in D |-> [markdown |-> PageText(p), source |-> "api"]] :
                   D \in SUBSET (1..n)}}

AnyFiles == FilesOf(FALSE, 1) \cup FilesOf(TRUE, MaxPages)

\* the range texts of these runs: a single page that is not the first, too
ExporterTexts == RangeTexts \cup { << "2" >> }

\* start_export_job has just returned: one job, registered and submitted
ExporterInit ==
    /\ file \in {Some(f) : f \in AnyFiles}
    /\ memo = EmptyDict
    /\ rawState = EmptyDict
    /\ ocr_jobs = EmptyDict
    /\ ocrQ = << >>
    /\ ocrStarted = 0
    /\ jobs = [s \in {SID} |-> 1]
    /\ \E fmt \in {"pdf", "md"}, flag \in BOOLEAN :
           ejob = << [session_id |-> SID, format |-> fmt, status |-> "queued",
                      progress |-> 0, stage |-> "queued", output_name |-> << >>,
                      output_bytes |-> None, error |-> None, cancel_flag |-> flag] >>
    /\ \E text \in ExporterTexts :
           ework = << [pc |-> "pending", range_text |-> text, pages |-> << >>,
                       md_pages |-> << >>, exc |-> ""] >>
    /\ exports = << >>
    /\ plan = "export"
    /\ call = NoCall
    /\ NoUnits

ExporterSpec == ExporterInit /\ [][ExportWorkerNext]_vars

----------------------------------------------------------------------------
(* Which thread took a step *)

\* a step of an export pool thread: a closure moves, none is added
ExportWorkerStep == ework' # ework /\ Len(ework') = Len(ework)

\* a step of the OCR pool thread: its queue changes, no task is submitted
OcrWorkerStep == ocrQ' # ocrQ /\ ocrStarted' = ocrStarted

\* a script run
UiStep == ~ExportWorkerStep /\ ~OcrWorkerStep

\* the ExportJob objects of the one session
SessionJobs == {j \in 1..Len(ejob) : ejob[j].session_id = SID}

----------------------------------------------------------------------------
(* The job registry *)

\* C1: for the session at most one export job is queued or running, and at
\* most one export worker of the session is executing at any time
C1_OneActiveExport ==
    /\ Cardinality({j \in SessionJobs : ejob[j].status \in {"queued", "running"}}) <= 1
    /\ Cardinality({j \in SessionJobs : Executing(ework[j])}) <= 1

\* C2: an OCR task is submitted for a key only when no task submitted earlier
\* for that key is still pending or executing
C2_SubmitOnlyWhenIdle ==
    [][ocrStarted' > ocrStarted =>
          \A i \in (Len(ocrQ) + 1)..Len(ocrQ') :
              /\ \A m \in 1..Len(ocrQ) : ocrQ[m].key # ocrQ'[i].key
              /\ \A m \in (Len(ocrQ) + 1)..Len(ocrQ') :
                     m # i => ocrQ'[m].key # ocrQ'[i].key]_vars

\* the page of an image was OCRed again after its first task had returned
C2_Witness ==
    /\ file # None
    /\ ~file[1].is_pdf
    /\ ocrStarted = 2
    /\ Len(ocrQ) = 1
    /\ ocrQ[1].gen = 2
    /\ 1 \in DOMAIN ocr_jobs
    /\ ocr_jobs[1].status = "running"

StatusRank(st) ==
    CASE st = "queued" -> 0
      [] st = "running" -> 1
      [] OTHER -> 2

\* the status stays, or moves forward from a status that is not terminal
StatusMoves(a, b) == a = b \/ StatusRank(a) < StatusRank(b)

\* C3: the status of a job never moves backward and never changes once it
\* is done, error or cancelled (export jobs by object, OCR entries by job)
C3_StatusMonotone ==
    [][/\ \A j \in 1..Len(ejob) : StatusMoves(ejob[j].status, ejob'[j].status)
       /\ \A k \in DOMAIN ocr_jobs \cap DOMAIN ocr_jobs' :
              ocr_jobs'[k].gen = ocr_jobs[k].gen =>
                  StatusMoves(ocr_jobs[k].status, ocr_jobs'[k].status)]_vars

\* an export ran to done and returned while the page's OCR entry shows error
C3_Witness ==
    /\ \E j \in 1..Len(ejob) : ejob[j].status = "done" /\ ework[j] = Finished
    /\ \E j \in 1..Len(ejob) : ejob[j].status = "cancelled"
    /\ \E k \in DOMAIN ocr_jobs : ocr_jobs[k].status = "error"

\* C4: a job whose status is done has its result: an export job its bytes
\* and a name, an OCR entry its result and pages
C4_DoneHasResult ==
    /\ \A j \in 1..Len(ejob) :
           ejob[j].status = "done" =>
               ejob[j].output_bytes # None /\ ejob[j].output_name # << >>
    /\ \A k \in DOMAIN ocr_jobs :
           ocr_jobs[k].status = "done" =>
               ocr_jobs[k].result # None /\ ocr_jobs[k].pages # None

\* an export job is done and its worker has not yet written the history
C4_Witness ==
    \E j \in 1..Len(ejob) :
        /\ ejob[j].status = "done"
        /\ ework[j].pc = "append"
        /\ ejob[j].output_bytes # None

\* C5: output_bytes is present only if the status is done and the error
\* message only if the status is error
C5_PayloadOnlyWhenTerminal ==
    \A j \in 1..Len(ejob) :
        /\ ejob[j].output_bytes # None => ejob[j].status = "done"
        /\ ejob[j].error # None => ejob[j].status = "error"

----------------------------------------------------------------------------
(* Who writes what *)

\* C6: no step of an OCR worker or of an export worker writes a Session or
\* Document field (the file, its edits and OCR cache, the export history)
C6_WorkersWriteOnlyJobs ==
    [][(ExportWorkerStep \/ OcrWorkerStep) => UNCHANGED <<file, exports>>]_vars

\* the page results, num_pages and the markdown cache
DocOf(f) == <<f.ocr_cache, f.raw_edits, f.num_pages>>

DocChanged ==
    /\ file # None
    /\ file' # None
    /\ (DocOf(file'[1]) # DocOf(file[1]) \/ memo' # memo)

\* this step is a script run that shows page k and takes its done entry
\* (main_panes.py lines 237-240, 250 and 283)
Consumes(k) ==
    /\ UiStep
    /\ file # None
    /\ k \in DOMAIN ocr_jobs
    /\ ocr_jobs[k].status = "done"
    /\ k \notin DOMAIN file[1].raw_edits
    /\ k \notin DOMAIN memo
    /\ file' # None
    /\ CurKey(file'[1]) = k
    /\ ~(SID \in DOMAIN jobs' /\ ejob'[jobs'[SID]].status \in {"running", "queued"})

\* job.get("result") or ""
ResultOf(k) == IF ocr_jobs[k].result = None THEN << >> ELSE ocr_jobs[k].result[1]

\* after the step the page result and the edit buffer of k hold the result
PageTakes(k) ==
    /\ k \in DOMAIN file'[1].ocr_cache
    /\ file'[1].ocr_cache[k].markdown = ResultOf(k)
    /\ k \in DOMAIN file'[1].raw_edits
    /\ file'[1].raw_edits[k] = ResultOf(k)

CacheTakes(k) == k \in DOMAIN memo' /\ memo'[k] = ResultOf(k)

\* C7 as stated: OCR worker steps leave the page results, num_pages and the
\* markdown cache unchanged; these change only in the script run that
\* consumes a done entry, and there the cache entry, the page result and the
\* edit buffer of the key take exactly the worker's result
C7_OnlyConsumeWrites ==
    [][/\ OcrWorkerStep => ~DocChanged
       /\ DocChanged => \E k \in 1..MaxPages : Consumes(k)
       /\ \A k \in 1..MaxPages : Consumes(k) => PageTakes(k) /\ CacheTakes(k)]_vars

\* C7 amended: OCR worker steps leave them unchanged; they change only in
\* script runs; a run that consumes a done entry gives the page result and
\* the edit buffer of the key exactly the worker's result, and the cache
\* entry too unless Re-OCR is clicked in the same run, which removes it
C7_WorkerFrameAndConsume ==
    [][/\ OcrWorkerStep => ~DocChanged
       /\ DocChanged => UiStep
       /\ \A k \in 1..MaxPages :
              Consumes(k) =>
                  /\ PageTakes(k)
                  /\ \/ CacheTakes(k)
                     \/ ocrStarted' > ocrStarted /\ k \notin DOMAIN memo']_vars

\* page 2 of a PDF holds, in all three places, the text its OCR task gave
C7_Witness ==
    /\ file # None
    /\ file[1].is_pdf
    /\ 2 \notin DOMAIN ocr_jobs
    /\ 2 \in DOMAIN memo
    /\ memo[2] # << >>
    /\ 2 \in DOMAIN file[1].raw_edits
    /\ file[1].raw_edits[2] = memo[2]
    /\ 2 \in DOMAIN file[1].ocr_cache
    /\ file[1].ocr_cache[2] = [markdown |-> memo[2], source |-> "api"]

----------------------------------------------------------------------------
(* Removal and cancellation *)

\* C8: every job that reaches done, error or cancelled is eventually removed
\* from its registry (ocr_jobs, jobs) by a later script run
C8_TerminalEntryRemoved ==
    /\ \A k \in 1..MaxPages :
           (k \in DOMAIN ocr_jobs /\ ocr_jobs[k].status \in Terminal)
               ~> (k \notin DOMAIN ocr_jobs)
    /\ (SID \in DOMAIN jobs /\ ejob[jobs[SID]].status \in Terminal)
           ~> (SID \notin DOMAIN jobs)

\* C9: a cancellation request changes only the cancel flag of the job: its
\* status, progress, stage, result and error stay as they were
C9_CancelOnlySetsFlag ==
    [][/\ \A j \in 1..Len(ejob) :
              (~ejob[j].cancel_flag /\ ejob'[j].cancel_flag) =>
                  ejob'[j] = [ejob[j] EXCEPT !.cancel_flag = TRUE]
       /\ \A k \in DOMAIN ocr_jobs \cap DOMAIN ocr_jobs' :
              (/\ ocr_jobs'[k].gen = ocr_jobs[k].gen
               /\ ~ocr_jobs[k].cancel
               /\ ocr_jobs'[k].cancel) =>
                  ocr_jobs'[k] = [ocr_jobs[k] EXCEPT !.cancel = TRUE]]_vars

\* a job asked to cancel is done, with its bytes in the job and the history
C9_Witness ==
    \E j \in 1..Len(ejob) :
        /\ ejob[j].cancel_flag
        /\ ejob[j].status = "done"
        /\ ework[j] = Finished
        /\ \E i \in 1..Len(exports) :
               exports[i].id = j /\ exports[i].content = ejob[j].output_bytes

\* C10: the history holds items of done jobs only; a job that ends cancelled
\* has none
C10_HistoryOnlyDone ==
    /\ \A i \in 1..Len(exports) : ejob[exports[i].id].status = "done"
    /\ \A j \in 1..Len(ejob) :
           ejob[j].status = "cancelled" => \A i \in 1..Len(exports) : exports[i].id # j

\* one job was cancelled after its bytes were built and left no item, while
\* another job's item is in the history
C10_Witness ==
    /\ \E j \in 1..Len(ejob) :
           /\ ejob[j].status = "cancelled"
           /\ ejob[j].output_bytes # None
           /\ ework[j] = Finished
    /\ Len(exports) = 1

----------------------------------------------------------------------------
(* C11: when the cancel request of an OCR job is set at the time its       *)
(* worker reaches the checkpoint after the backend call, the worker leaves *)
(* the entry cancelled, with no result and no page count, and ends; a      *)
(* cancelled entry never changes again (it can only be replaced by a new   *)
(* job), and while it stands no memo entry and no ocr_cache entry of its   *)
(* key is created or changed                                               *)
C11_CancelledOcrLeavesNothing ==
    [][\A k \in DOMAIN ocr_jobs :
        /\ (/\ OcrHeadAt("check") /\ ocrQ[1].key = k /\ ocr_jobs[k].cancel
            /\ OcrWorkerStep)
           => /\ ocr_jobs' = [ocr_jobs EXCEPT ![k].status = "cancelled"]
              /\ ocr_jobs'[k].result = None
              /\ ocr_jobs'[k].pages = None
              /\ ocrQ' = Tail(ocrQ)
        /\ ocr_jobs[k].status = "cancelled"
           => /\ ocr_jobs[k].result = None
              /\ ocr_jobs[k].pages = None
              /\ k \in DOMAIN ocr_jobs'
              /\ \/ ocr_jobs'[k] = ocr_jobs[k]
                 \/ ocr_jobs'[k].gen # ocr_jobs[k].gen
              /\ DictGet(memo', k) \in {None, DictGet(memo, k)}
              /\ file # None /\ file' # None
              /\ DictGet(file'[1].ocr_cache, k) = DictGet(file[1].ocr_cache, k)
      ]_vars

\* a worker found the request at its checkpoint, and the UI has run since
C11_Witness ==
    /\ file # None
    /\ \E k \in DOMAIN ocr_jobs :
          /\ ocr_jobs[k].status = "cancelled"
          /\ ocr_jobs[k].cancel
          /\ k \in DOMAIN file[1].raw_edits
    /\ ocrQ = << >>

----------------------------------------------------------------------------
(* C12: an export job whose range gives a non-empty page list and whose    *)
(* cancel flag is set before or during page collection stops collecting at *)
(* the next check between pages, is never done, and ends cancelled         *)

\* the places of the worker up to the check that follows the collection
\* (line 244 for pdf, line 318 for md)
CollectingOrBefore(j) ==
    \/ ework[j].pc \in {"pending", "stage", "collect_stage", "collect", "pdf_check"}
    \/ /\ ework[j].pc = "parse"
       /\ file # None
       /\ \E r \in {ResolvePages(file[1], ework[j].range_text)} :
              r.ok /\ r.pages # << >>
    \/ /\ ejob[j].format = "md"
       /\ ework[j].pc \in {"bytes", "name_stage", "name", "final"}

C12_CancelStopsCollection ==
    [][\A j \in 1..Len(ejob) :
          (ejob[j].cancel_flag /\ CollectingOrBefore(j))
          => /\ ejob[j].status \in {"queued", "running"}
             /\ (ework[j].pc = "collect" /\ ework'[j] # ework[j])
                => ework'[j].pc \in {"pdf_check", "bytes"}
             /\ \/ /\ ejob'[j].status \in {"queued", "running"}
                   /\ ejob'[j].cancel_flag
                   /\ ework'[j].pc \in
                         {"pending", "parse", "stage", "collect_stage", "collect",
                          "pdf_check", "bytes", "name_stage", "name", "final"}
                \/ /\ ejob'[j].status = "cancelled"
                   /\ ework'[j].pc = "finished"
      ]_vars

\* a job of two pages that was cancelled after its first page
C12_Witness ==
    \E j \in 1..Len(ejob) :
        /\ ejob[j].status = "cancelled"
        /\ ejob[j].cancel_flag
        /\ ejob[j].progress = CollectProgress(1, 2)
        /\ ework[j].pc = "finished"

----------------------------------------------------------------------------
(* C13: an exception of the OCR backend call is caught in the worker: the  *)
(* worker's next step leaves the entry of its key in status error with the *)
(* message, without result and page count, and touches nothing else; an    *)
(* error entry never changes again (it can only be replaced by a new job), *)
(* and while it stands no memo entry and no ocr_cache entry of its key is  *)
(* created or changed                                                      *)
C13_BackendErrorIsRecorded ==
    [][/\ (OcrHeadAt("exc") /\ ocrQ[1].exc = "ocr backend failed" /\ OcrWorkerStep)
          => /\ ocr_jobs' = DictPut(ocr_jobs, ocrQ[1].key,
                    [status |-> "error", cancel |-> FALSE,
                     error |-> Some("ocr backend failed"),
                     result |-> None, pages |-> None, gen |-> ocrQ[1].gen])
             /\ ocrQ' = Tail(ocrQ)
             /\ UNCHANGED <<file, memo, rawState, jobs, ejob, ework, exports>>
       /\ \A k \in DOMAIN ocr_jobs :
            ocr_jobs[k].status = "error"
            => /\ ocr_jobs[k].error # None
               /\ ocr_jobs[k].result = None
               /\ ocr_jobs[k].pages = None
               /\ k \in DOMAIN ocr_jobs'
               /\ \/ ocr_jobs'[k] = ocr_jobs[k]
                  \/ ocr_jobs'[k].gen # ocr_jobs[k].gen
               /\ DictGet(memo', k) \in {None, DictGet(memo, k)}
               /\ file # None /\ file' # None
               /\ DictGet(file'[1].ocr_cache, k) = DictGet(file[1].ocr_cache, k)
      ]_vars

\* the backend failed for a page, the worker has ended, nothing is cached
C13_Witness ==
    /\ file # None
    /\ ocrQ = << >>
    /\ \E k \in DOMAIN ocr_jobs :
          /\ ocr_jobs[k].status = "error"
          /\ ocr_jobs[k].error = Some("ocr backend failed")
          /\ k \notin DOMAIN memo
          /\ k \notin DOMAIN file[1].ocr_cache

----------------------------------------------------------------------------
(* C14: a range text that selects no valid page is refused by              *)
(* start_export_job itself, so that no job is created, registered or       *)
(* submitted for it: every task that waits for, or stands at, the parse of *)
(* its range holds a text that parses for the active file                  *)
C14_NoJobForBadRange ==
    \A j \in 1..Len(ework) :
        ework[j].pc \in {"pending", "parse"}
        => /\ file # None
           /\ \E r \in {ResolvePages(file[1], ework[j].range_text)} : r.ok

----------------------------------------------------------------------------
(* C15: in every state, so for a reader at any point of the worker's run,  *)
(* an export job whose status is done has progress 100 and stage "Ready"   *)
C15_DoneIsReady ==
    \A j \in 1..Len(ejob) :
        ejob[j].status = "done" => ejob[j].progress = 100 /\ ejob[j].stage = "Ready"

\* a reader sees a done job before the worker has appended its item
C15_Witness ==
    \E j \in 1..Len(ejob) :
        /\ ejob[j].status = "done"
        /\ ework[j].pc = "append"
        /\ ejob[j].progress = 100

----------------------------------------------------------------------------
(* C16: a job becomes done only on its way to the append of its item; the  *)
(* worker of a done job appends one item, whose content, name and format   *)
(* are the job's output_bytes, output_name and format, and returns; no job *)
(* has more than one item; a worker step leaves the items already in the   *)
(* history as they are                                                     *)
ItemOf(j) ==
    [id |-> j, name |-> ejob[j].output_name, format |-> ejob[j].format,
     content |-> ejob[j].output_bytes]

C16_OneItemPerDoneJob ==
    [][/\ \A j \in 1..Len(ejob) :
            /\ ejob[j].status = "done" => ework[j].pc \in {"append", "finished"}
            /\ ework[j].pc = "append"
               => /\ ejob[j].status = "done"
                  /\ \A i \in 1..Len(exports) : exports[i].id # j
            /\ (ework[j].pc = "append" /\ ework'[j] # ework[j])
               => /\ exports' = Append(exports, ItemOf(j))
                  /\ ework'[j].pc = "finished"
                  /\ ejob' = ejob
            /\ (ejob[j].status = "done" /\ ework[j].pc = "finished")
               => /\ Cardinality({i \in 1..Len(exports) : exports[i].id = j}) = 1
                  /\ \A i \in 1..Len(exports) :
                        exports[i].id = j => exports[i] = ItemOf(j)
       /\ exports' # exports
          => \E j \in 1..Len(ejob) :
                ework[j].pc = "append" /\ exports' = Append(exports, ItemOf(j))
      ]_vars

\* two jobs ended done and each left its own item
C16_Witness ==
    /\ Len(exports) = 2
    /\ exports[1].id # exports[2].id
    /\ \A i \in 1..2 :
          /\ ejob[exports[i].id].status = "done"
          /\ ework[exports[i].id].pc = "finished"
          /\ exports[i].content = ejob[exports[i].id].output_bytes
          /\ exports[i].content # None
    /\ exports[1].format # exports[2].format

----------------------------------------------------------------------------
(* C17: the stage labels of an export job come in the order "Collecting    *)
(* pages", the stage of the format, "Generating filename", "Ready": no     *)
(* step of a job puts an earlier label after a later one                   *)
StageOrder(stage) ==
    CASE stage = "queued" -> 0
      [] stage = "Collecting pages" -> 1
      [] stage \in {"Converting to PDF", "Preparing Markdown"} -> 2
      [] stage = "Generating filename" -> 3
      [] stage = "Ready" -> 4

C17_StagesInOrder ==
    [][\A j \in 1..Len(ejob) :
          StageOrder(ejob'[j].stage) >= StageOrder(ejob[j].stage)]_vars

----------------------------------------------------------------------------
(* C18: the pages collected so far are, in the order of the resolved page  *)
(* list, for each page the user's edit when the page has one (an empty     *)
(* edit too), else the markdown of its cached OCR result, else the empty   *)
(* text; checked for every document of AnyFiles                            *)
C18_CollectedPages ==
    \A j \in 1..Len(ework) :
        /\ Len(ework[j].md_pages) <= Len(ework[j].pages)
        /\ \A i \in 1..Len(ework[j].md_pages) :
              LET p == ework[j].pages[i]
                  f == file[1]
                  md == ework[j].md_pages[i]
              IN  /\ p \in DOMAIN f.raw_edits => md = f.raw_edits[p]
                  /\ (p \notin DOMAIN f.raw_edits /\ p \in DOMAIN f.ocr_cache)
                     => md = f.ocr_cache[p].markdown
                  /\ (p \notin DOMAIN f.raw_edits /\ p \notin DOMAIN f.ocr_cache)
                     => md = << >>

\* two pages were collected: the first has an empty edit and a cached
\* result, the second has only a cached result
C18_Witness ==
    \E j \in 1..Len(ework) :
        /\ ework[j].pages = << 1, 2 >>
        /\ Len(ework[j].md_pages) = 2
        /\ 1 \in DOMAIN file[1].raw_edits /\ file[1].raw_edits[1] = << >>
        /\ 1 \in DOMAIN file[1].ocr_cache
        /\ 2 \notin DOMAIN file[1].raw_edits
        /\ 2 \in DOMAIN file[1].ocr_cache
        /\ ework[j].md_pages = << << >>, PageText(2) >>

----------------------------------------------------------------------------
(* C19: the artifact of a markdown export that is done: for a PDF each     *)
(* collected page, in the order of the page list, under the heading        *)
(* "# Page N" with N the number of that page, the blocks joined by a blank *)
(* line; for an image the collected text with no heading                   *)
PageBlock(n, md) == << "# Page " >> \o IntChars(n) \o << "\n\n", md, "\n" >>

----------------------------------------------------------------------------
(* C20: when the PDF renderer raises, the handler of the worker records    *)
(* the message and then the status error and the worker returns; from the  *)
(* failure on the job has no output_bytes and no item in the history, and  *)
(* the worker's steps leave the history as it is                           *)
RenderFailed(j) ==
    \/ ework[j].pc = "exc" /\ ework[j].exc = "pdf rendering failed"
    \/ ework[j].pc \in {"exc_status", "finished"}
       /\ ejob[j].error = Some("pdf rendering failed")

C20_RenderFailureIsAnError ==
    [][\A j \in 1..Len(ejob) :
          RenderFailed(j)
          => /\ ejob[j].format = "pdf"
             /\ ejob[j].output_bytes = None
             /\ \A i \in 1..Len(exports) : exports[i].id # j
             /\ ework[j].pc = "finished" <=> ejob[j].status = "error"
             /\ ework'[j] # ework[j]
                => /\ exports' = exports
                   /\ \/ /\ ework[j].pc = "exc"
                         /\ ework'[j].pc = "exc_status"
                         /\ ejob' = [ejob EXCEPT ![j].error = Some("pdf rendering failed")]
                      \/ /\ ework[j].pc = "exc_status"
                         /\ ework'[j].pc = "finished"
                         /\ ejob' = [ejob EXCEPT ![j].status = "error"]
      ]_vars

\* a pdf job whose rendering failed has ended, while another job's item is
\* in the history
C20_Witness ==
    /\ \E j \in 1..Len(ejob) :
          /\ ejob[j].status = "error"
          /\ ejob[j].error = Some("pdf rendering failed")
          /\ ejob[j].output_bytes = None
          /\ ework[j].pc = "finished"
    /\ Len(exports) = 1

----------------------------------------------------------------------------
(* C21: the filename step cannot fail the job: whatever the service does,  *)
(* the worker's step at the filename leaves status and error as they were, *)
(* writes either the suggested name or the fallback name made of the       *)
(* session title and a timestamp, and goes on to the last cancel check;    *)
(* from there the job has a non-empty name and never ends in error         *)
FallbackName(fmt) == ReplaceSpaces(Title) \o << "_", "%Y%m%d_%H%M%S", ".", fmt >>

C21_FilenameNeverFatal ==
    [][\A j \in 1..Len(ejob) :
          /\ (ework[j].pc = "name" /\ ework'[j] # ework[j])
             => /\ ework'[j].pc = "final"
                /\ ejob'[j].status = ejob[j].status
                /\ ejob'[j].error = None
                /\ \/ ejob'[j].output_name = FallbackName(ejob[j].format)
                   \/ /\ ejob'[j].output_name # << >>
                      /\ \E reply \in FilenameReplies :
                            /\ GenerateFilename(reply) # None
                            /\ ejob'[j].output_name =
                                  << reply.text, ".", ejob[j].format >>
          /\ ework[j].pc \in {"final", "w_progress", "w_stage", "w_status", "append"}
             => /\ ejob[j].output_name # << >>
                /\ ejob[j].error = None
                /\ ework'[j].pc \in {"final", "w_progress", "w_stage", "w_status",
                                     "append", "finished"}
                /\ ejob'[j].status \in {"running", "done", "cancelled"}
                /\ (ework'[j].pc = "finished" /\ ~ejob[j].cancel_flag)
                   => ejob'[j].status = "done"
      ]_vars

\* a job ended done under the fallback name
C21_Witness ==
    \E j \in 1..Len(ejob) :
        /\ ejob[j].status = "done"
        /\ ework[j].pc = "finished"
        /\ ejob[j].output_name = FallbackName(ejob[j].format)
        /\ ejob[j].error = None

----------------------------------------------------------------------------
(* C22: what an OCR worker holds after the backend call, and what a done   *)
(* entry holds: for a PDF and a response of n >= 1 pages the page number   *)
(* clamp(p, 1, n) of the response and the count n, for an empty response   *)
(* the empty text and the count 1; for an image the one returned page (the *)
(* empty text when the backend gave no page) and the count 1               *)
Clamp(p, lo, hi) == IF p < lo THEN lo ELSE IF p > hi THEN hi ELSE p

Selected(pdf, p, md, pages_len) ==
    IF pdf
    THEN \E n \in 0..MaxResp :
            IF n >= 1
            THEN md = PageText(Clamp(p, 1, n)) /\ pages_len = n
            ELSE md = << >> /\ pages_len = 1
    ELSE md \in {PageText(1), << >>} /\ pages_len = 1

C22_SelectedPage ==
    /\ \A i \in 1..Len(ocrQ) :
          ocrQ[i].pc \in {"check", "w_result", "w_pages", "w_status"}
          => Selected(ocrQ[i].pdf, ocrQ[i].expect_page, ocrQ[i].md, ocrQ[i].pages_len)
    /\ \A k \in DOMAIN ocr_jobs :
          ocr_jobs[k].status = "done"
          => /\ ocr_jobs[k].result # None /\ ocr_jobs[k].pages # None
             /\ Selected(file[1].is_pdf, k, ocr_jobs[k].result[1], ocr_jobs[k].pages[1])

\* page 2 was asked of a backend that returned one page: the job is done
\* with that page and the count 1
C22_Witness ==
    /\ file # None /\ file[1].is_pdf
    /\ 2 \in DOMAIN ocr_jobs
    /\ ocr_jobs[2].status = "done"
    /\ ocr_jobs[2].result = Some(PageText(1))
    /\ ocr_jobs[2].pages = Some(1)

----------------------------------------------------------------------------
(* parse_page_range run on its own: any of the texts below, with any       *)
(* total_pages up to MaxTotal or with none                                 *)

\* the application before anything was uploaded
NoApp ==
    /\ file = None
    /\ memo = EmptyDict
    /\ rawState = EmptyDict
    /\ ocr_jobs = EmptyDict
    /\ ocrQ = << >>
    /\ ocrStarted = 0
    /\ jobs = EmptyDict
    /\ ejob = << >>
    /\ ework = << >>
    /\ exports = << >>

appVars == <<file, memo, rawState, ocr_jobs, ocrQ, ocrStarted, jobs, ejob, ework,
             exports, plan>>

\* the texts of tests/test_range_parse.py and texts around them
ParseTexts ==
    { << "a", "l", "l" >>,
      << "*" >>,
      << " ", "A", "L", "L", " " >>,
      << "A", "l", "l" >>,
      << >>,
      << " " >>,
      << "1", "-", "3", ",", "5", ",", "1", "0", "-", "1", "2" >>,
      << "0", ",", " ", "-", "1", ",", " ", "2", "-", "1", ",", " ", "1", "0", "0" >>,
      << "2", "-", "1" >>,
      << "1", "-", "2" >>,
      << "9" >>,
      << "2" >>,
      << "0" >>,
      << "-", "1" >>,
      << "a", "b", "c" >>,
      << "1", ",", ",", "2" >>,
      << "5", ",", "1" >>,
      << "1", ",", "1" >>,
      << "2", "-", "3", ",", "1", "-", "2" >>,
      << "1", " ", "-", " ", "3" >>,
      << "+", "3" >>,
      << "0", "-", "2" >>,
      << "3", "-" >>,
      << "1", "-", "2", "-", "3" >>,
      << "7", "-", "4" >>,
      << "x", ",", "2" >>,
      << "1", ",", "2", ",", "3", ",", "4", ",", "5" >>,
      << "4" >>,
      << "1", "0", "0" >>,
      << "," >> }

ParseTotals == {NoTotal} \cup (0..MaxTotal)

ParseCall(text, total_pages) ==
    /\ call' = [fn |-> "parse_page_range", text |-> text, total_pages |-> total_pages,
                result |-> ParsePageRange(text, total_pages)]
    /\ UNCHANGED <<appVars, cacheVars, sessionVars>>

ParseInit == NoApp /\ plan = "unit" /\ call = NoCall /\ NoUnits

ParseNext == \E text \in ParseTexts, total_pages \in ParseTotals : ParseCall(text, total_pages)

ParseSpec == ParseInit /\ [][ParseNext]_vars

----------------------------------------------------------------------------
(* C23: a list returned by parse_page_range is strictly ascending; with a  *)
(* total_pages given (anything but None) every page of it is within        *)
(* 1..total_pages, with none given every page is at least 1                *)
C23_AscendingWithinTotal ==
    (call.fn = "parse_page_range" /\ call.result.ok)
    => LET pages == call.result.pages
       IN  /\ \A i \in 1..(Len(pages) - 1) : pages[i] < pages[i + 1]
           /\ \A i \in 1..Len(pages) :
                 /\ pages[i] >= 1
                 /\ call.total_pages # NoTotal => pages[i] <= call.total_pages

----------------------------------------------------------------------------
(* C24: "all" and "*", in any letter case and with blanks around, give the *)
(* pages 1..total_pages when total_pages is given; with none given the     *)
(* call fails, and the class of that error is not the class of the error   *)
(* of an empty selection                                                   *)
IsAllText(text) == Lower(Strip(text)) \in { <<"a", "l", "l">>, <<"*">> }

\* the class raised when no page is selected
EmptySelectionClass == ParsePageRange(<< >>, NoTotal).raises

C24_AllPages ==
    (call.fn = "parse_page_range" /\ IsAllText(call.text))
    => IF call.total_pages # NoTotal
       THEN /\ call.result.ok
            /\ call.result.pages = [i \in 1..call.total_pages |-> i]
       ELSE /\ ~call.result.ok
            /\ call.result.raises # EmptySelectionClass

----------------------------------------------------------------------------
(* C25: a token that is neither a positive integer nor a range a-b adds    *)
(* nothing and raises nothing; a range a-b with a > b adds the pages of    *)
(* b-a; the list returned holds exactly the pages of the valid tokens that *)
(* are within the bound, and the call returns whenever there is one        *)

\* the pages a token stands for, read off the text of the token
TokenPages(tok) ==
    LET dashes == {i \in 2..(Len(tok) - 1) :
                      /\ tok[i] = "-"
                      /\ IsDigits(RStrip(SubSeq(tok, 1, i - 1)))
                      /\ IsDigits(LStrip(SubSeq(tok, i + 1, Len(tok))))}
    IN  IF dashes # {}
        THEN LET i == CHOOSE d \in dashes : TRUE
                 a == ToInt(RStrip(SubSeq(tok, 1, i - 1)))
                 b == ToInt(LStrip(SubSeq(tok, i + 1, Len(tok))))
             IN  {p \in 0..Max(a, b) : p >= Min(a, b)}
        ELSE IF IsDigits(tok) THEN {ToInt(tok)} \ {0}
        ELSE IF Len(tok) > 1 /\ tok[1] = "+" /\ IsDigits(Tail(tok))
        THEN {ToInt(Tail(tok))} \ {0}
        ELSE {}

\* the pages of the valid tokens of a text that are within the bound
BoundedUnion(text, total_pages) ==
    LET parts == SplitComma(Lower(Strip(text)))
        all == UNION {TokenPages(Strip(parts[i])) : i \in 1..Len(parts)}
    IN  {p \in all : p >= 1 /\ (NoPages(total_pages) \/ p <= total_pages)}

----------------------------------------------------------------------------
----------------------------------------------------------------------------
(* services/cache.py run on its own: any sequence of set_cached_markdown,  *)
(* read_memo_markdown and invalidate_markdown, in a process where          *)
(* st.session_state can be used (the try blocks) and in one where its use  *)
(* raises (the except blocks, on _MEMO_FALLBACK)                           *)

\* composite keys (session, file, page)
CacheKeys == { << "s1", "f1", 1 >>, << "s1", "f1", 2 >>, << "s2", "f1", 1 >> }

CacheValues == { << >>, << "h" >>, << "w" >> }

\* lines 17-24
SetCachedMarkdown(key, value) ==
    /\ IF stateOk
       THEN memo' = DictPut(memo, key, value) /\ memoFallback' = memoFallback
       ELSE memoFallback' = DictPut(memoFallback, key, value) /\ memo' = memo
    /\ call' = [fn |-> "set_cached_markdown", key |-> key, value |-> value]
    /\ UNCHANGED <<file, rawState, ocr_jobs, ocrQ, ocrStarted, jobs, ejob, ework,
                   exports, plan, stateOk, sessionVars>>

\* lines 27-32
ReadMemoMarkdown(key) ==
    /\ call' = [fn |-> "read_memo_markdown", key |-> key,
                result |-> IF stateOk THEN DictGet(memo, key)
                           ELSE DictGet(memoFallback, key)]
    /\ UNCHANGED <<appVars, cacheVars, sessionVars>>

\* a faulty variant of the function below: the whole bucket is dropped
InvalidateAll(key) ==
    /\ IF stateOk
       THEN memo' = EmptyDict /\ memoFallback' = memoFallback
       ELSE memoFallback' = EmptyDict /\ memo' = memo
    /\ call' = [fn |-> "invalidate_markdown", key |-> key]
    /\ UNCHANGED <<file, rawState, ocr_jobs, ocrQ, ocrStarted, jobs, ejob, ework,
                   exports, plan, stateOk, sessionVars>>

\* lines 35-44
InvalidateMarkdown(key) ==
    /\ IF stateOk
       THEN memo' = DictPop(memo, key) /\ memoFallback' = memoFallback
       ELSE memoFallback' = DictPop(memoFallback, key) /\ memo' = memo
    /\ call' = [fn |-> "invalidate_markdown", key |-> key]
    /\ UNCHANGED <<file, rawState, ocr_jobs, ocrQ, ocrStarted, jobs, ejob, ework,
                   exports, plan, stateOk, sessionVars>>

CacheInit ==
    /\ NoApp
    /\ plan = "unit"
    /\ call = NoCall
    /\ memoFallback = EmptyDict
    /\ stateOk \in BOOLEAN
    /\ sessions = << >>
    /\ active_session_id = << >>
    /\ heap = << >>
    /\ sessionsMade = 0

CacheNext ==
    \/ \E key \in CacheKeys, value \in CacheValues : SetCachedMarkdown(key, value)
    \/ \E key \in CacheKeys : ReadMemoMarkdown(key)
    \/ \E key \in CacheKeys : InvalidateMarkdown(key)

CacheSpec == CacheInit /\ [][CacheNext]_vars

(* C27: a set of a key makes the reads of that key return its value, an    *)
(* invalidate makes them return None, a read returns what was last set for *)
(* its key and not invalidated since, and no call changes what is read for *)
(* another key (a read changes nothing at all)                             *)

\* what a read of the key returns in this state
Reads(key) == IF stateOk THEN DictGet(memo, key) ELSE DictGet(memoFallback, key)

C27_ReadsLatestSet ==
    [][\A key \in CacheKeys :
          call'.fn # "none" /\ call'.key = key
          => /\ call'.fn = "set_cached_markdown" => Reads(key)' = Some(call'.value)
             /\ call'.fn = "invalidate_markdown" => Reads(key)' = None
             /\ call'.fn = "read_memo_markdown"
                => call'.result = Reads(key) /\ Reads(key)' = Reads(key)
             /\ \A k \in CacheKeys \ {key} : Reads(k)' = Reads(k)
      ]_vars

\* one key was set and invalidated, another was set twice: the read of the
\* second gives its later value
C27_Witness ==
    /\ call.fn = "read_memo_markdown"
    /\ call.key = << "s1", "f1", 2 >>
    /\ call.result = Some(<< "w" >>)
    /\ Reads(<< "s1", "f1", 1 >>) = None
    /\ Reads(<< "s2", "f1", 1 >>) = Some(<< >>)

----------------------------------------------------------------------------
(* services/state.py run on its own: the session functions in any order,   *)
(* with the statements of the application that change a session between    *)
(* them (an upload, an edit, a cached OCR result, a page turn, a new page  *)
(* count, a history item): SessionSpec with the history, DocumentSpec with *)
(* the changes of the documents.  A session holds references: heap.files   *)
(* are the SessionFile objects, heap.edits and heap.caches the dict        *)
(* objects their raw_edits and ocr_cache fields point to.  call holds a    *)
(* duplication, its source and its result, until the next step             *)

\* _hash_bytes(content): the file id of the document uploaded into a
\* session, a different document in each session
FileId(sid) == << "doc", sid >>

\* the file id of the one file of a session that has a file
FID(s) == CHOOSE f \in DOMAIN s.files : TRUE

\* an address not in use: the wanted one when it is free
Alloc(h, want) ==
    IF want \notin DOMAIN h THEN want
    ELSE CHOOSE a \in 1..(Cardinality(DOMAIN h) + 1) :
             a \notin DOMAIN h /\ \A b \in 1..(a - 1) : b \in DOMAIN h

\* Session(id, title): no files, no history
NewSession(title) ==
    [title |-> title, files |-> EmptyDict, active_file_id |-> None,
     ui |-> EmptyDict, exports |-> EmptyDict]

\* what is left of the heap when only these sessions refer to it
Collect(ss, h) ==
    LET fs == UNION {{ss[s].files[f] : f \in DOMAIN ss[s].files} : s \in DOMAIN ss}
        live == fs \cap DOMAIN h.files
    IN  [files |-> [a \in live |-> h.files[a]],
         edits |-> [a \in {h.files[x].raw_edits : x \in live} |-> h.edits[a]],
         caches |-> [a \in {h.files[x].ocr_cache : x \in live} |-> h.caches[a]]]

\* a faulty variant of the method below: the copy points to the dicts of
\* the original
ShallowCopy(h, a, want) ==
    LET c == Alloc(h.files, want)
    IN  [heap |-> [h EXCEPT !.files = DictPut(h.files, c, h.files[a])], addr |-> c]

\* SessionFile.copy, lines 123-134: a new object with new dicts
FileCopy(h, a, want) ==
    LET c == Alloc(h.files, want)
        e == Alloc(h.edits, want)
        o == Alloc(h.caches, want)
    IN  [heap |-> [files |-> DictPut(h.files, c,
                                [h.files[a] EXCEPT !.raw_edits = e, !.ocr_cache = o]),
                   edits |-> DictPut(h.edits, e, h.edits[h.files[a].raw_edits]),
                   caches |-> DictPut(h.caches, o, h.caches[h.files[a].ocr_cache])],
         addr |-> c]

\* create_session, lines 68-73
CreateSession ==
    /\ sessionsMade < MaxSessions
    /\ sessions' = DictPut(sessions, sessionsMade + 1,
                       NewSession(<< "Session ", Cardinality(DOMAIN sessions) + 1 >>))
    /\ active_session_id' = sessionsMade + 1
    /\ sessionsMade' = sessionsMade + 1
    /\ call' = NoCall
    /\ UNCHANGED <<appVars, cacheVars, heap>>

\* duplicate_session, lines 76-87
DuplicateSession(sid) ==
    /\ sid \in DOMAIN sessions
    /\ sessionsMade < MaxSessions
    /\ LET s == sessions[sid]
           r == IF DOMAIN s.files = {} THEN [heap |-> heap, addr |-> 0]
                ELSE FileCopy(heap, s.files[FID(s)], sessionsMade + 1)
       IN  /\ sessions' = DictPut(sessions, sessionsMade + 1,
                   [title |-> s.title \o << " (copy)" >>,
                    files |-> IF DOMAIN s.files = {} THEN EmptyDict
                              ELSE [f \in {FID(s)} |-> r.addr],
                    active_file_id |-> s.active_file_id,
                    ui |-> s.ui,
                    exports |-> EmptyDict])
           /\ heap' = r.heap
    /\ active_session_id' = sessionsMade + 1
    /\ sessionsMade' = sessionsMade + 1
    /\ call' = [fn |-> "duplicate_session", sid |-> sid, new |-> sessionsMade + 1]
    /\ UNCHANGED <<appVars, cacheVars>>

\* a faulty variant of the function below: the session is removed and
\* nothing else is done
DeleteSessionBare(sid) ==
    /\ sessions' = DictPop(sessions, sid)
    /\ heap' = Collect(DictPop(sessions, sid), heap)
    /\ call' = NoCall
    /\ UNCHANGED <<appVars, cacheVars, active_session_id, sessionsMade>>

\* delete_session, lines 90-98
DeleteSession(sid) ==
    /\ LET left == DictPop(sessions, sid)
       IN  IF DOMAIN left = {}
           THEN /\ sessionsMade < MaxSessions
                /\ sessions' = [s \in {sessionsMade + 1} |-> NewSession(<< "Session ", 1 >>)]
                /\ active_session_id' = sessionsMade + 1
                /\ sessionsMade' = sessionsMade + 1
                /\ heap' = Collect(EmptyDict, heap)
           ELSE /\ sessions' = left
                /\ active_session_id' = CHOOSE s \in DOMAIN left :
                                            \A t \in DOMAIN left : s <= t
                /\ sessionsMade' = sessionsMade
                /\ heap' = Collect(left, heap)
    /\ call' = NoCall
    /\ UNCHANGED <<appVars, cacheVars>>

\* set_active, lines 101-104
SetActive(sid) ==
    /\ active_session_id' = IF sid \in DOMAIN sessions THEN sid ELSE active_session_id
    /\ call' = NoCall
    /\ UNCHANGED <<appVars, cacheVars, sessions, heap, sessionsMade>>

\* ui/main_panes.py, lines 158-179: an upload into a session without a file
UploadFile(sid, is_pdf) ==
    /\ sid \in DOMAIN sessions
    /\ DOMAIN sessions[sid].files = {}
    /\ LET c == Alloc(heap.files, sid)
           e == Alloc(heap.edits, sid)
           o == Alloc(heap.caches, sid)
       IN  /\ heap' = [files |-> DictPut(heap.files, c,
                                    [is_pdf |-> is_pdf, num_pages |-> 1,
                                     current_page |-> 1, raw_edits |-> e, ocr_cache |-> o]),
                       edits |-> DictPut(heap.edits, e, EmptyDict),
                       caches |-> DictPut(heap.caches, o, EmptyDict)]
           /\ sessions' = [sessions EXCEPT ![sid].files = [f \in {FileId(sid)} |-> c],
                                           ![sid].active_file_id = Some(FileId(sid))]
    /\ call' = NoCall
    /\ UNCHANGED <<appVars, cacheVars, active_session_id, sessionsMade>>

\* the SessionFile of a session that has one
FileAddr(sid) == sessions[sid].files[FID(sessions[sid])]

HasFile(sid) == sid \in DOMAIN sessions /\ DOMAIN sessions[sid].files # {}

\* ui/main_panes.py, line 537: active_file.raw_edits[current_page] = new_md
EditPage(sid, p, text) ==
    /\ HasFile(sid)
    /\ heap' = [heap EXCEPT !.edits[heap.files[FileAddr(sid)].raw_edits] =
                                DictPut(@, p, text)]
    /\ call' = NoCall
    /\ UNCHANGED <<appVars, cacheVars, sessions, active_session_id, sessionsMade>>

\* ui/main_panes.py, line 287: active_file.ocr_cache[current_page] = OcrEntry(...)
CachePage(sid, p) ==
    /\ HasFile(sid)
    /\ heap' = [heap EXCEPT !.caches[heap.files[FileAddr(sid)].ocr_cache] =
                                DictPut(@, p, [markdown |-> PageText(p), source |-> "api"])]
    /\ call' = NoCall
    /\ UNCHANGED <<appVars, cacheVars, sessions, active_session_id, sessionsMade>>

\* ui/main_panes.py, lines 112-131: active_file.current_page = c
TurnPage(sid, c) ==
    /\ HasFile(sid)
    /\ c <= heap.files[FileAddr(sid)].num_pages
    /\ heap' = [heap EXCEPT !.files[FileAddr(sid)].current_page = c]
    /\ call' = NoCall
    /\ UNCHANGED <<appVars, cacheVars, sessions, active_session_id, sessionsMade>>

\* ui/main_panes.py, lines 86-105 and 289-290: active_file.num_pages = n,
\* the page count of a PDF once it is read
SetNumPages(sid, n) ==
    /\ HasFile(sid)
    /\ heap.files[FileAddr(sid)].is_pdf
    /\ heap.files[FileAddr(sid)].num_pages < n
    /\ heap' = [heap EXCEPT !.files[FileAddr(sid)].num_pages = n]
    /\ call' = NoCall
    /\ UNCHANGED <<appVars, cacheVars, sessions, active_session_id, sessionsMade>>

\* services/exporter.py, line 334: session.exports[export_id] = exported_item
AddExport(sid, fmt) ==
    /\ sid \in DOMAIN sessions
    /\ DOMAIN sessions[sid].exports = {}
    /\ sessions' = [sessions EXCEPT ![sid].exports =
                       [i \in {1} |-> [id |-> 1, name |-> FallbackName(fmt),
                                       format |-> fmt, content |-> Some(<< "%PDF" >>)]]]
    /\ call' = NoCall
    /\ UNCHANGED <<appVars, cacheVars, active_session_id, heap, sessionsMade>>

\* ensure_app_state, lines 52-61, has run
SessionInit ==
    /\ NoApp
    /\ plan = "unit"
    /\ call = NoCall
    /\ memoFallback = EmptyDict
    /\ stateOk = TRUE
    /\ sessions = [s \in {1} |-> NewSession(<< "Session ", 1 >>)]
    /\ active_session_id = 1
    /\ heap = [files |-> EmptyDict, edits |-> EmptyDict, caches |-> EmptyDict]
    /\ sessionsMade = 1

SessionNext ==
    \/ CreateSession
    \/ \E sid \in 1..MaxSessions : DuplicateSession(sid)
    \/ \E sid \in 1..MaxSessions : DeleteSession(sid)
    \/ \E sid \in 1..MaxSessions : SetActive(sid)
    \/ \E sid \in 1..MaxSessions : UploadFile(sid, TRUE)
    \/ \E sid \in 1..MaxSessions : AddExport(sid, "pdf")

SessionSpec == SessionInit /\ [][SessionNext]_vars

\* the sessions and the changes of their documents, without the history
DocumentNext ==
    \/ CreateSession
    \/ \E sid \in 1..MaxSessions : DuplicateSession(sid)
    \/ \E sid \in 1..MaxSessions : DeleteSession(sid)
    \/ \E sid \in 1..MaxSessions : UploadFile(sid, TRUE)
    \/ \E sid \in 1..MaxSessions : EditPage(sid, 1, << "E" >>)
    \/ \E sid \in 1..MaxSessions : CachePage(sid, 1)
    \/ \E sid \in 1..MaxSessions, c \in 1..MaxPages : TurnPage(sid, c)
    \/ \E sid \in 1..MaxSessions, n \in 2..MaxPages : SetNumPages(sid, n)

DocumentSpec == SessionInit /\ [][DocumentNext]_vars

----------------------------------------------------------------------------
(* C28: after ensure_app_state and any sequence of create_session,         *)
(* duplicate_session, delete_session and set_active calls, the sessions    *)
(* map is not empty and active_session_id is the id of a session in it     *)
C28_ActiveSessionExists ==
    /\ DOMAIN sessions # {}
    /\ active_session_id \in DOMAIN sessions

\* the last session was deleted and "Session 1" was made again
C28_Witness ==
    /\ sessionsMade >= 2
    /\ DOMAIN sessions = {sessionsMade}
    /\ sessions[sessionsMade].title = << "Session ", 1 >>
    /\ active_session_id = sessionsMade

----------------------------------------------------------------------------
(* C29: duplicate_session carries the export history of the source into    *)
(* the duplicate: right after the duplication the duplicate's export       *)
(* history holds the same items as the source's                            *)
C29_DuplicateCarriesHistory ==
    call.fn = "duplicate_session"
    => /\ DOMAIN sessions[call.new].exports = DOMAIN sessions[call.sid].exports
       /\ \A i \in DOMAIN sessions[call.sid].exports :
              sessions[call.new].exports[i] = sessions[call.sid].exports[i]

----------------------------------------------------------------------------
(* C30: duplicate_session gives the duplicate its own copy of the document *)
(* map: after the duplication a change of a document's edits, OCR cache    *)
(* entries, current page or page count in the duplicate leaves the         *)
(* documents of the source as they were, and such a change in the source   *)
(* leaves the duplicate as it was.  Stated for any two sessions: a step    *)
(* changes the documents of at most one of them, and the step of the       *)
(* duplication gives the duplicate the documents of the source and leaves  *)
(* those of the source alone                                               *)

\* the documents of a session as a reader of the session sees them
Docs(sid) ==
    [f \in DOMAIN sessions[sid].files |->
        [is_pdf |-> heap.files[sessions[sid].files[f]].is_pdf,
         num_pages |-> heap.files[sessions[sid].files[f]].num_pages,
         current_page |-> heap.files[sessions[sid].files[f]].current_page,
         raw_edits |-> heap.edits[heap.files[sessions[sid].files[f]].raw_edits],
         ocr_cache |-> heap.caches[heap.files[sessions[sid].files[f]].ocr_cache]]]

C30_DuplicateIsIndependent ==
    [][/\ \A a \in DOMAIN sessions \cap DOMAIN sessions' :
          \A b \in (DOMAIN sessions \cap DOMAIN sessions') \ {a} :
              Docs(a)' # Docs(a) => Docs(b)' = Docs(b)
       /\ \A src \in DOMAIN sessions, new \in DOMAIN sessions' \ DOMAIN sessions :
              call'.fn = "duplicate_session" /\ call'.sid = src /\ call'.new = new
              => /\ Docs(new)' = Docs(src)
                 /\ Docs(src)' = Docs(src)
      ]_vars

\* session 2 is a duplicate of session 1 with its document, and since the
\* duplication the edits, the cache, the current page and the page count
\* of one of the two have changed
C30_Witness ==
    /\ {1, 2} \subseteq DOMAIN sessions
    /\ DOMAIN sessions[1].files = {FileId(1)}
    /\ DOMAIN sessions[2].files = {FileId(1)}
    /\ Docs(1)[FileId(1)].raw_edits # Docs(2)[FileId(1)].raw_edits
    /\ Docs(1)[FileId(1)].ocr_cache # Docs(2)[FileId(1)].ocr_cache
    /\ Docs(1)[FileId(1)].current_page # Docs(2)[FileId(1)].current_page
    /\ Docs(1)[FileId(1)].num_pages # Docs(2)[FileId(1)].num_pages

----------------------------------------------------------------------------
(* The page fields of a document on their own: any PDF of up to MaxTotal   *)
(* pages (PyPDF2 counts its pages at the upload, or fails and 1 is taken)  *)
(* or an image; render passes with a navigation click, and passes that     *)
(* take a done OCR entry giving any page count                             *)

PagesInit ==
    /\ file \in {Some(LoadSessionFile(TRUE, t, r)) : t \in 0..MaxTotal, r \in 0..MaxTotal}
                \cup {Some(LoadSessionFile(FALSE, 1, 1))}
    /\ file[1].num_pages \in {1, file[1].total}
    /\ memo = EmptyDict
    /\ rawState = EmptyDict
    /\ ocr_jobs = EmptyDict
    /\ ocrQ = << >>
    /\ ocrStarted = 0
    /\ jobs = EmptyDict
    /\ ejob = << >>
    /\ ework = << >>
    /\ exports = << >>
    /\ plan = "unit"
    /\ call = NoCall
    /\ NoUnits

\* render_main_panes, lines 86-131, on a PDF
PagesRender(click) ==
    /\ file[1].is_pdf
    /\ file' = Some(Navigate(FixPages(file[1]), click))
    /\ UNCHANGED <<memo, rawState, ocr_jobs, ocrQ, ocrStarted, jobs, ejob, ework,
                   exports, plan, unitVars>>

\* render_main_panes, lines 283-292: the entry of the page is done and
\* reports n pages
PagesConsume(n) ==
    /\ \E r \in {ConsumeDone(
                    [f |-> file[1], memo |-> memo, raw |-> rawState,
                     jobs |-> [k \in {CurKey(file[1])} |->
                                  [status |-> "done", result |-> Some(PageText(k)),
                                   pages |-> Some(n)]]],
                    CurKey(file[1]))} :
           /\ file' = Some(r.f)
           /\ memo' = r.memo
           /\ rawState' = r.raw
    /\ UNCHANGED <<ocr_jobs, ocrQ, ocrStarted, jobs, ejob, ework, exports, plan,
                   unitVars>>

PagesNext ==
    \/ \E click \in {[kind |-> kd] : kd \in {"none", "prev", "next"}}
                    \cup {[kind |-> "jump", page |-> p] : p \in 1..MaxTotal} :
           PagesRender(click)
    \/ \E n \in 0..MaxTotal : PagesConsume(n)

PagesSpec == PagesInit /\ [][PagesNext]_vars

----------------------------------------------------------------------------
(* C31: for every document 1 <= current_page <= num_pages holds after      *)
(* every operation that changes either field: the navigation, the          *)
(* correction of the page count on render, the page count taken from a     *)
(* done OCR entry                                                          *)
C31_PageWithinCount ==
    [][file'[1].num_pages # file[1].num_pages
       \/ file'[1].current_page # file[1].current_page
       => /\ 1 <= file'[1].current_page
          /\ file'[1].current_page <= file'[1].num_pages
      ]_vars

----------------------------------------------------------------------------
(* mistral_client.py: _fix_markdown_line_breaks run on its own, in both    *)
(* of its modes, on texts of up to MaxLines lines taken from BreakLines    *)
(* and on every text of up to MaxText characters over "a", " " and "\n"    *)

\* the grave accent of a code fence, a character a string here cannot hold
Backtick == "U+0060"

\* lines 82 and 86: the mark of a code block
Fence == << Backtick, Backtick, Backtick >>

\* markdown_str.split('\n')
RECURSIVE SplitLines(_)
SplitLines(s) ==
    IF \A i \in 1..Len(s) : s[i] # "\n"
    THEN << s >>
    ELSE LET i == CHOOSE j \in 1..Len(s) :
                      s[j] = "\n" /\ \A h \in 1..(j - 1) : s[h] # "\n"
         IN  << SubSeq(s, 1, i - 1) >> \o SplitLines(SubSeq(s, i + 1, Len(s)))

\* lines 82 and 95: the line opens or closes a block fenced by the mark
Fenced(line, mark) ==
    Len(line) >= Len(mark) /\ SubSeq(line, 1, Len(mark)) = mark

\* lines 126-133: what makes a line structured whether looked at as the
\* line or as the next line
StructuredLine(line) ==
    LET body == LStrip(line)
        lead == Len(line) - Len(body)
        hashes == CHOOSE h \in 0..Len(body) :
                      /\ \A i \in 1..h : body[i] = "#"
                      /\ h < Len(body) => body[h + 1] # "#"
        digits == CHOOSE d \in 0..Len(body) :
                      /\ \A i \in 1..d : IsDigit(body[i])
                      /\ d < Len(body) => ~IsDigit(body[d + 1])
        rule == RStrip(body)
    IN  \/ Strip(line) = << >>
        \/ \E i \in 1..Len(line) : line[i] = "|"
        \/ lead >= 4
        \/ hashes \in 1..6 /\ Len(body) > hashes /\ body[hashes + 1] = " "
        \/ Len(rule) >= 3 /\ \A i \in 1..Len(rule) : rule[i] \in {"-", "*", "_"}
        \/ Len(body) >= 2 /\ body[1] \in {"-", "*", "+"} /\ body[2] = " "
        \/ /\ digits >= 1
           /\ Len(body) >= digits + 2
           /\ body[digits + 1] = "."
           /\ body[digits + 2] = " "
        \/ body # << >> /\ body[1] = ">"

\* lines 108-119
IsStructured(line) ==
    \/ StructuredLine(line)
    \/ Len(line) >= 2 /\ line[Len(line)] = " " /\ line[Len(line) - 1] = " "
    \/ Strip(line) # << >> /\ Strip(line)[Len(Strip(line))] = "\\"

\* lines 122-136
NextIsStructured(next_line) ==
    \/ StructuredLine(next_line)
    \/ Fenced(next_line, Fence)
    \/ Fenced(next_line, << "$", "$" >>)

\* lines 78-145: the lines of the result from line i on
RECURSIVE FixLines(_, _)
FixLines(lines, i) ==
    IF i > Len(lines) THEN << >>
    ELSE IF \E mark \in { Fence, << "$", "$" >> } : Fenced(lines[i], mark)
    THEN LET mark == IF Fenced(lines[i], Fence)
                     THEN Fence ELSE << "$", "$" >>
             closing == {j \in (i + 1)..Len(lines) : Fenced(lines[j], mark)}
             last == IF closing = {} THEN Len(lines)
                     ELSE CHOOSE j \in closing : \A h \in closing : j <= h
         IN  SubSeq(lines, i, last) \o FixLines(lines, last + 1)
    ELSE IF \/ IsStructured(lines[i])
            \/ i + 1 <= Len(lines) /\ NextIsStructured(lines[i + 1])
            \/ i = Len(lines)
    THEN << lines[i] >> \o FixLines(lines, i + 1)
    ELSE << lines[i] \o << " ", " " >> >> \o FixLines(lines, i + 1)

\* line 155: re.sub(r'(?<!  )(?<!\n)\n(?!\n)', '  \n', markdown_str)
RECURSIVE FixSimple(_, _)
FixSimple(s, i) ==
    IF i > Len(s) THEN << >>
    ELSE (IF /\ s[i] = "\n"
             /\ ~(i >= 3 /\ s[i - 1] = " " /\ s[i - 2] = " ")
             /\ ~(i >= 2 /\ s[i - 1] = "\n")
             /\ ~(i < Len(s) /\ s[i + 1] = "\n")
          THEN << " ", " ", "\n" >> ELSE << s[i] >>) \o FixSimple(s, i + 1)

\* a faulty variant of the function below: a break is put before every
\* single newline, whatever precedes it
RECURSIVE BreakEveryNewline(_, _)
BreakEveryNewline(markdown_str, parse_structured_md) ==
    IF markdown_str = << >> THEN << >>
    ELSE (IF /\ markdown_str[1] = "\n"
             /\ ~(Len(markdown_str) >= 2 /\ markdown_str[2] = "\n")
          THEN << " ", " ", "\n" >> ELSE << markdown_str[1] >>)
         \o BreakEveryNewline(Tail(markdown_str), parse_structured_md)

\* _fix_markdown_line_breaks, lines 50-157
FixMarkdownLineBreaks(markdown_str, parse_structured_md) ==
    IF parse_structured_md
    THEN Join(FixLines(SplitLines(markdown_str), 1), "\n")
    ELSE FixSimple(markdown_str, 1)

\* lines of plain text and of each structure the function tells apart
BreakLines ==
    { << >>, << " " >>, << "a" >>, << "a", " " >>, << "a", " ", " " >>,
      << "a", "\\" >>, << "-" >>, << "-", " ", "a" >>, << "-", "-", "-" >>,
      Fence, << "$", "$" >>, << "#", " ", "h" >>, << "#" >>,
      << "a", "|", "b" >>, << " ", " ", " ", " ", "a" >>,
      << "1", ".", " ", "a" >>, << "1", "." >>, << ">", "q" >> }

\* the texts: lines joined by newlines, and all short texts over three
\* characters
BreakTexts ==
    UNION {{Join(ls, "\n") : ls \in [1..n -> BreakLines]} : n \in 1..MaxLines}
    \cup UNION {[1..n -> {"a", " ", "\n"}] : n \in 0..MaxText}

\* a text and a mode are given
BreakInit ==
    /\ NoApp
    /\ plan = "unit"
    /\ call \in {[fn |-> "given", text |-> text, parse_structured_md |-> mode] :
                     text \in BreakTexts, mode \in BOOLEAN}
    /\ NoUnits

\* the call on the text
FixCall ==
    /\ call.fn = "given"
    /\ call' = [fn |-> "_fix_markdown_line_breaks", text |-> call.text,
                parse_structured_md |-> call.parse_structured_md,
                result |-> FixMarkdownLineBreaks(call.text, call.parse_structured_md)]
    /\ UNCHANGED <<appVars, cacheVars, sessionVars>>

\* a second call, on the result of the first
FixAgain ==
    /\ call.fn = "_fix_markdown_line_breaks"
    /\ call' = [fn |-> "again", text |-> call.text,
                parse_structured_md |-> call.parse_structured_md,
                result |-> call.result,
                again |-> FixMarkdownLineBreaks(call.result, call.parse_structured_md)]
    /\ UNCHANGED <<appVars, cacheVars, sessionVars>>

BreakNext == FixCall \/ FixAgain

BreakSpec == BreakInit /\ [][BreakNext]_vars

----------------------------------------------------------------------------
(* C32: the normalisation of line breaks is idempotent: normalising a      *)
(* normalised text gives the same text, so a newline that carries a hard   *)
(* break never gets a second one; and runs of two or more newlines are     *)
(* left as they are: the result has the lines of the text, and a line that *)
(* ends at a newline of such a run is unchanged                            *)

\* the newline after line k of the lines ls stands next to another newline
InRun(ls, k) ==
    \/ k >= 2 /\ ls[k] = << >>
    \/ k + 1 <= Len(ls) - 1 /\ ls[k + 1] = << >>

----------------------------------------------------------------------------
(* The export tasks of MaxPoolJobs runs: the user clicked an export button *)
(* in that many script runs of one session before any of the tasks began   *)

PoolInit ==
    /\ file = Some([is_pdf |-> FALSE, total |-> 1, num_pages |-> 1, current_page |-> 1,
                    raw_edits |-> [p \in {1} |-> << "E" >>], ocr_cache |-> EmptyDict])
    /\ memo = EmptyDict
    /\ rawState = EmptyDict
    /\ ocr_jobs = EmptyDict
    /\ ocrQ = << >>
    /\ ocrStarted = 0
    /\ jobs = [s \in {SID} |-> MaxPoolJobs]
    /\ \E fmt \in {"pdf", "md"} :
           ejob = [j \in 1..MaxPoolJobs |->
                      [session_id |-> SID, format |-> fmt, status |-> "queued",
                       progress |-> 0, stage |-> "queued", output_name |-> << >>,
                       output_bytes |-> None, error |-> None, cancel_flag |-> FALSE]]
    /\ \E text \in RangeTexts :
           ework = [j \in 1..MaxPoolJobs |->
                       [pc |-> "pending", range_text |-> text, pages |-> << >>,
                        md_pages |-> << >>, exc |-> ""]]
    /\ exports = << >>
    /\ plan = "export"
    /\ call = NoCall
    /\ NoUnits

PoolNext ==
    \E j \in 1..MaxPoolJobs :
        \/ ExportBegin(j) \/ ExportParse(j) \/ ExportStage(j)
        \/ ExportCollectStage(j) \/ ExportCollectPage(j) \/ ExportPdfCheck(j)
        \/ (\E rendered \in BOOLEAN : ExportWriteBytes(j, rendered))
        \/ ExportNameStage(j)
        \/ (\E reply \in FilenameReplies : ExportWriteName(j, reply))
        \/ ExportFinalCheck(j) \/ ExportWriteProgress(j) \/ ExportWriteReady(j)
        \/ ExportWriteDone(j) \/ ExportAppend(j) \/ ExportError(j)
        \/ ExportErrorStatus(j)

PoolSpec == PoolInit /\ [][PoolNext]_vars

----------------------------------------------------------------------------
(* C33: at any time at most one OCR worker is executing per UI session and *)
(* at most two export workers are executing in the process; a task         *)
(* submitted while its pool is full waits until a running worker of the    *)
(* pool finishes                                                           *)
C33_PoolsAreBounded ==
    /\ Cardinality({i \in 1..Len(ocrQ) : ocrQ[i].pc # "pending"}) <= OcrPoolSize
    /\ Cardinality({j \in 1..Len(ework) : Executing(ework[j])}) <= ExportPoolSize

----------------------------------------------------------------------------
(* C34: while the tracked job of the view is not terminal (export job      *)
(* queued or running, OCR entry of the page running) every render pass     *)
(* schedules another pass after its delay, and a pass that finds the job   *)
(* terminal schedules none                                                 *)

\* app.py, lines 71-78, and main_panes.py, lines 276-282 and 452-459: the run
\* of this click sleeps and ends in st.rerun()
SchedulesRerun(click) ==
    \/ PollStops(TopBar(click))
    \/ Panes(TopBar(click), click).stop

\* the jobs the view tracks are not terminal
TrackedJobActive ==
    \/ SID \in DOMAIN jobs /\ ejob[jobs[SID]].status \in {"queued", "running"}
    \/ /\ file # None
       /\ CurKey(file[1]) \in DOMAIN ocr_jobs
       /\ ocr_jobs[CurKey(file[1])].status = "running"

C34_PollsUntilTerminal ==
    [][\A click \in PlanClicks(plan) :
           Main(click) => (TrackedJobActive' <=> SchedulesRerun(click))
      ]_vars


----------------------------------------------------------------------------
(* C35: Re-OCR of a page *)

\* the key a run without navigation shows
ShownKey == CurKey(FixPages(file[1]))

\* the entry of key k is not running: the button is enabled
ReOcrOffered(k) == k \in DOMAIN ocr_jobs => ocr_jobs[k].status # "running"

\* what a run without a click leaves, from the current state
IdlePass == Panes(TopBar([kind |-> "none"]), [kind |-> "none"])

\* a run with a Re-OCR click leaves no cache entry for the key, a fresh
\* running entry, and exactly one more task
ReOcrStartsOne ==
    \A kd \in {"reocr2", "reocr3"} :
        (/\ file # None
         /\ ReOcrOffered(ShownKey)
         /\ Main([kind |-> kd]))
        => /\ ShownKey \notin DOMAIN memo'
           /\ ShownKey \in DOMAIN ocr_jobs'
           /\ ocr_jobs'[ShownKey].status = "running"
           /\ ~ocr_jobs'[ShownKey].cancel
           /\ ocr_jobs'[ShownKey].gen = ocrStarted + 1
           /\ ocrStarted' = ocrStarted + 1
           /\ Len(ocrQ') = Len(ocrQ) + 1
           /\ ocrQ'[Len(ocrQ')].gen = ocrStarted + 1
           /\ ocrQ'[Len(ocrQ')].key = ShownKey

\* a run that shows a page whose entry is done takes the result: the page's
\* stored markdown and the cache entry become the result, the entry goes
DoneIsTaken ==
    (/\ file # None
     /\ ShownKey \in DOMAIN ocr_jobs
     /\ ocr_jobs[ShownKey].status = "done"
     /\ ~PollStops(TopBar([kind |-> "none"])))
    => /\ ShownKey \notin DOMAIN IdlePass.jobs
       /\ DictGet(IdlePass.f.raw_edits, ShownKey) = ocr_jobs[ShownKey].result
       /\ DictGet(IdlePass.memo, ShownKey) = ocr_jobs[ShownKey].result

\* C35: after a Re-OCR action from any state in which the button is enabled
\* the cache entry is gone, the old entry is replaced and exactly one task
\* is started; and once the entry is done, a run that shows the page
\* replaces the stored markdown with the result, refreshes the cache and
\* removes the entry
C35_ReOcrReplaces == []DoneIsTaken /\ [][ReOcrStartsOne]_vars


----------------------------------------------------------------------------
(* C36: a cancel request made while the job is queued or running *)

\* the request of job j was made while the job was queued or running, and
\* the job has not ended otherwise since
CancelledInTime(j) ==
    /\ ejob[j].cancel_flag
    /\ ejob[j].status \in {"queued", "running", "cancelled"}

\* the history holds an item of job j
HasItem(hist, j) == \E i \in 1..Len(hist) : hist[i].id = j

\* C36: once cancel_export_job has set the flag of a queued or running job,
\* no step makes that job done and the history never holds an item of it,
\* wherever the request falls relative to the worker's last read of the flag
C36_CancelledNeverDone ==
    [][\A j \in 1..Len(ejob) :
          CancelledInTime(j) =>
              /\ ejob'[j].status # "done"
              /\ ~HasItem(exports', j)
      ]_vars


----------------------------------------------------------------------------
(* C37: the done status and the history *)

\* C37: in every state a script run can read, an export job whose status is
\* done has its item in the session's export history
C37_DoneImpliesInHistory ==
    \A j \in 1..Len(ejob) : ejob[j].status = "done" => HasItem(exports, j)


----------------------------------------------------------------------------
(* services/exporter.py: the html branch of start_export_job._run, which   *)
(* no control of the UI selects, and the runs of _run for all three        *)
(* formats.  The loop index of _build_html_document is kept in call.       *)

\* job.progress = int(50 + 30 * idx / max(1, len(pages_md)))
CellProgress(idx, n) == 50 + ((30 * idx) \div Max(1, n))

\* lines 140-150: the cell of the idx-th page
HtmlCell(md, page_num, idx, is_pdf) ==
    IF is_pdf
    THEN (IF idx > 1 THEN << "---\n\n" >> ELSE << >>)
         \o << "# Page " >> \o IntChars(page_num) \o << "\n\n", md >>
    ELSE << md >>

\* lines 155-162: the notebook of the cells, converted by nbconvert
HtmlBytes(md_pages, pages, is_pdf) ==
    << "<html>" >> \o
    Join([i \in 1..Min(Len(md_pages), Len(pages)) |->
             HtmlCell(md_pages[i], pages[i], i, is_pdf)],
         "</div><div>")

\* line 135
ExportHtmlStage(j) ==
    /\ j \in 1..Len(ework)
    /\ ework[j].pc = "stage"
    /\ ejob[j].format = "html"
    /\ ejob' = [ejob EXCEPT ![j].stage = "Rendering HTML"]
    /\ ework' = [ework EXCEPT ![j].pc = "h_collect_stage"]
    /\ UNCHANGED <<ocrVars, jobs, exports>>

\* line 119, called from line 136 and from line 278
ExportHtmlCollectStage(j) ==
    /\ j \in 1..Len(ework)
    /\ ework[j].pc \in {"h_collect_stage", "h_collect2_stage"}
    /\ ejob' = [ejob EXCEPT ![j].stage = "Collecting pages"]
    /\ ework' = [ework EXCEPT
           ![j].pc = IF ework[j].pc = "h_collect_stage" THEN "h_collect"
                     ELSE "h_collect2",
           ![j].md_pages = << >>]
    /\ UNCHANGED <<ocrVars, jobs, exports>>

\* lines 121-129, called from line 136 and from line 278
ExportHtmlCollectPage(j) ==
    /\ j \in 1..Len(ework)
    /\ ework[j].pc \in {"h_collect", "h_collect2"}
    /\ LET w == ework[j]
           i == Len(w.md_pages) + 1
           n == Len(w.pages)
           md == CollectPage(file[1], w.pages[i])
           leave == ejob[j].cancel_flag \/ i = n
       IN  /\ ejob' = [ejob EXCEPT ![j].progress = CollectProgress(i, n)]
           /\ ework' = [ework EXCEPT
                  ![j].md_pages = Append(w.md_pages, md),
                  ![j].pc = IF ~leave THEN w.pc
                            ELSE IF w.pc = "h_collect" THEN "h_cells"
                            ELSE "name"]
           /\ call' = IF leave /\ w.pc = "h_collect"
                      THEN [fn |-> "_build_html_document", idx |-> 0]
                      ELSE call
    /\ UNCHANGED <<file, memo, rawState, ocr_jobs, ocrQ, ocrStarted, plan,
                   cacheVars, sessionVars, jobs, exports>>

\* lines 140-153: one turn of the loop over the cells
ExportHtmlCell(j) ==
    /\ j \in 1..Len(ework)
    /\ ework[j].pc = "h_cells"
    /\ LET w == ework[j]
           idx == call.idx + 1
           n == Len(w.md_pages)
       IN  /\ ejob' = [ejob EXCEPT ![j].progress = CellProgress(idx, n)]
           /\ ework' = [ework EXCEPT
                  ![j].pc = IF ejob[j].cancel_flag THEN "h_check"
                            ELSE IF idx = Min(n, Len(w.pages)) THEN "h_convert"
                            ELSE "h_cells"]
           /\ call' = [call EXCEPT !.idx = idx]
    /\ UNCHANGED <<file, memo, rawState, ocr_jobs, ocrQ, ocrStarted, plan,
                   cacheVars, sessionVars, jobs, exports>>

\* lines 155-162: nbconvert returns or raises
ExportHtmlConvert(j, rendered) ==
    /\ j \in 1..Len(ework)
    /\ ework[j].pc = "h_convert"
    /\ ework' = IF rendered THEN [ework EXCEPT ![j].pc = "h_check"]
                ELSE [ework EXCEPT ![j].pc = "exc", ![j].exc = "html rendering failed"]
    /\ call' = NoCall
    /\ UNCHANGED <<file, memo, rawState, ocr_jobs, ocrQ, ocrStarted, plan,
                   cacheVars, sessionVars, jobs, ejob, exports>>

\* lines 271-275: the check after the document, and the bytes
ExportHtmlCheck(j) ==
    /\ j \in 1..Len(ework)
    /\ ework[j].pc = "h_check"
    /\ IF ejob[j].cancel_flag
       THEN /\ ejob' = [ejob EXCEPT ![j].status = "cancelled"]
            /\ ework' = [ework EXCEPT ![j] = Finished]
       ELSE /\ ejob' = [ejob EXCEPT ![j].output_bytes =
                   Some(HtmlBytes(ework[j].md_pages, ework[j].pages, file[1].is_pdf))]
            /\ ework' = [ework EXCEPT ![j].pc = "h_name_stage"]
    /\ call' = NoCall
    /\ UNCHANGED <<file, memo, rawState, ocr_jobs, ocrQ, ocrStarted, plan,
                   cacheVars, sessionVars, jobs, exports>>

\* line 278
ExportHtmlNameStage(j) ==
    /\ j \in 1..Len(ework)
    /\ ework[j].pc = "h_name_stage"
    /\ ejob' = [ejob EXCEPT ![j].stage = "Generating filename"]
    /\ ework' = [ework EXCEPT ![j].pc = "h_collect2_stage"]
    /\ UNCHANGED <<ocrVars, jobs, exports>>

\* cancel_export_job, called by a script run while the worker runs
CancelRequest ==
    /\ SID \in DOMAIN jobs
    /\ ~ejob[jobs[SID]].cancel_flag
    /\ ejob' = CancelExportJob([jobs |-> jobs, ejob |-> ejob, ework |-> ework,
                                over |-> FALSE]).ejob
    /\ UNCHANGED <<ocrVars, jobs, ework, exports>>

\* start_export_job has just returned, for one of the three formats
FormatInit ==
    /\ file \in {Some(f) : f \in AnyFiles}
    /\ memo = EmptyDict
    /\ rawState = EmptyDict
    /\ ocr_jobs = EmptyDict
    /\ ocrQ = << >>
    /\ ocrStarted = 0
    /\ jobs = [s \in {SID} |-> 1]
    /\ \E fmt \in {"pdf", "md", "html"} :
           ejob = << [session_id |-> SID, format |-> fmt, status |-> "queued",
                      progress |-> 0, stage |-> "queued", output_name |-> << >>,
                      output_bytes |-> None, error |-> None, cancel_flag |-> FALSE] >>
    /\ \E text \in ExporterTexts :
           ework = << [pc |-> "pending", range_text |-> text, pages |-> << >>,
                       md_pages |-> << >>, exc |-> ""] >>
    /\ exports = << >>
    /\ plan = "unit"
    /\ call = NoCall
    /\ NoUnits

\* lines 241, 269 and 291: the branch of the format
FormatNext ==
    \/ ExportBegin(1) \/ ExportParse(1)
    \/ (ejob[1].format # "html" /\ ExportStage(1))
    \/ ExportCollectStage(1) \/ ExportCollectPage(1) \/ ExportPdfCheck(1)
    \/ (\E rendered \in BOOLEAN : ExportWriteBytes(1, rendered))
    \/ ExportNameStage(1)
    \/ (\E reply \in FilenameReplies : ExportWriteName(1, reply))
    \/ ExportFinalCheck(1) \/ ExportWriteProgress(1) \/ ExportWriteReady(1)
    \/ ExportWriteDone(1) \/ ExportAppend(1) \/ ExportError(1)
    \/ ExportErrorStatus(1)
    \/ ExportHtmlStage(1) \/ ExportHtmlCollectStage(1) \/ ExportHtmlCollectPage(1)
    \/ ExportHtmlCell(1)
    \/ (\E rendered \in BOOLEAN : ExportHtmlConvert(1, rendered))
    \/ ExportHtmlCheck(1) \/ ExportHtmlNameStage(1)
    \/ CancelRequest

FormatSpec == FormatInit /\ [][FormatNext]_vars

\* C38: within one export job the progress lies in 0..100 and no step
\* lowers it, for the formats md, pdf and html and every page list
C38_ProgressMonotone ==
    [][\A j \in 1..Len(ejob) :
          /\ ejob'[j].progress \in 0..100
          /\ ejob'[j].progress >= ejob[j].progress
      ]_vars

\* the same for the two formats the UI offers
ProgressMonotoneMdPdf ==
    [][\A j \in 1..Len(ejob) :
          ejob[j].format \in {"md", "pdf"} =>
              /\ ejob'[j].progress \in 0..100
              /\ ejob'[j].progress >= ejob[j].progress
      ]_vars

\* in the html branch the progress stays in 0..100
ProgressInRange == \A j \in 1..Len(ejob) : ejob[j].progress \in 0..100


----------------------------------------------------------------------------
(* C39: every job ends, once *)

\* a job that has a terminal status keeps it: an export job for good, an
\* OCR entry until it is removed or replaced by a new job
TerminalStays ==
    /\ \A j \in 1..Len(ejob) :
           ejob[j].status \in Terminal => ejob'[j].status = ejob[j].status
    /\ \A k \in DOMAIN ocr_jobs :
           ocr_jobs[k].status \in Terminal =>
               \/ k \notin DOMAIN ocr_jobs'
               \/ ocr_jobs'[k].gen # ocr_jobs[k].gen
               \/ ocr_jobs'[k].status = ocr_jobs[k].status

\* C39: when every backend call returns or raises and the threads keep
\* running, every export job becomes done, error or cancelled and every OCR
\* job entry becomes done, error or cancelled, and a terminal status is
\* never exchanged for another one
C39_JobsEndOnce ==
    /\ \A j \in 1..MaxExports :
           (j <= Len(ejob)) ~> (j <= Len(ejob) /\ ejob[j].status \in Terminal)
    /\ \A k \in 1..MaxPages :
           (k \in DOMAIN ocr_jobs /\ ocr_jobs[k].status = "running")
               ~> (k \in DOMAIN ocr_jobs /\ ocr_jobs[k].status \in Terminal)
    /\ [][TerminalStays]_vars

\* an export job and an OCR entry have both ended, the export in error
C39_Witness ==
    /\ ejob # << >>
    /\ \A j \in 1..Len(ejob) : ejob[j].status \in Terminal
    /\ \E j \in 1..Len(ejob) : ejob[j].status = "error"
    /\ \E k \in DOMAIN ocr_jobs : ocr_jobs[k].status \in Terminal
    /\ ocrQ = << >>


\* all the behaviours of Spec in which both pools keep running
FairFullSpec ==
    /\ Init
    /\ [][Next]_vars
    /\ WF_vars(ExportWorkerNext)
    /\ WF_vars(OcrWorkerNext)


----------------------------------------------------------------------------
(* C40: the page of a cancelled OCR job *)

\* C40: while the entry of a page stands cancelled, a script run in which
\* the user does nothing leaves the page's stored result (ocr_cache and the
\* markdown cache) and its edit buffer (raw_edits) absent: the run records
\* no markdown for the page, not even the empty text
C40_CancelledPageStaysEmpty ==
    [][\A k \in DOMAIN ocr_jobs :
          (/\ ocr_jobs[k].status = "cancelled"
           /\ file # None
           /\ Main([kind |-> "none"]))
          => /\ k \notin DOMAIN file'[1].raw_edits
             /\ k \notin DOMAIN file'[1].ocr_cache
             /\ k \notin DOMAIN memo'
      ]_vars

\* the stored result stays absent, whatever the edit buffer gets
CancelledPageHasNoResult ==
    [][\A k \in DOMAIN ocr_jobs :
          (/\ ocr_jobs[k].status = "cancelled"
           /\ file # None
           /\ Main([kind |-> "none"]))
          => /\ k \notin DOMAIN file'[1].ocr_cache
             /\ k \notin DOMAIN memo'
      ]_vars

=============================================================================
